---- MODULE Spec2Model ----
(***************************************************************************)
(* Invoice quality control: the rule engine (invoice_qc/rules.py), the     *)
(* report aggregator and the validators (invoice_qc/validator.py), the     *)
(* per-document extraction loop and the methods of the extractor that read *)
(* dates, currencies, amounts and tables (invoice_qc/extractor.py), the    *)
(* upload endpoint (server.py).                                            *)
(*                                                                         *)
(* Representation.                                                         *)
(*  - An absent (None) field is the value None.                            *)
(*  - A text value (Python str) held by a field is Text(s), s a sequence   *)
(*    of one-character strings, so that strip(), split('.'), join() and    *)
(*    fromisoformat() are computed and not assumed.  A message is such a   *)
(*    sequence, in which a literal fragment of the f-string is kept as one *)
(*    element; no fragment contains a period, every period of a message is *)
(*    an element "." of its own.                                           *)
(*  - An amount (Python float) held by an invoice is named by the integer  *)
(*    n of cents it was read from, Float(n): it is the IEEE-754 double     *)
(*    nearest to n/100, FromCents(n).  The arithmetic of the rules is      *)
(*    carried out on doubles (53-bit significand, round to nearest, ties   *)
(*    to even).                                                            *)
(***************************************************************************)
EXTENDS Integers, Sequences, FiniteSets, TLC

\* None; a record, so that it can be compared with a text, a float or a date
None == [none |-> TRUE]

\* a str, of the characters s
Text(s) == [str |-> s]

\* the float read from an amount of n cents: the double nearest to n / 100
Float(n) == [cents |-> n]

Max(a, b) == IF a >= b THEN a ELSE b
Min(a, b) == IF a <= b THEN a ELSE b

(***************************************************************************)
(* Natural numbers of arbitrary size: sequences of limbs in base 2^24,     *)
(* least significant limb first.  They carry the exact intermediate        *)
(* results of the double arithmetic.                                       *)
(***************************************************************************)
LimbBits == 24
LimbBase == 2^LimbBits

Limb(a, i) == IF i >= 1 /\ i <= Len(a) THEN a[i] ELSE 0

\* without its leading zero limbs
BTrim(a) ==
    LET top == {i \in 1..Len(a) : a[i] # 0}
    IN  IF top = {} THEN <<>>
        ELSE SubSeq(a, 1, CHOOSE i \in top : \A j \in top : j <= i)

NatToBig(n) == BTrim(<<n % LimbBase, n \div LimbBase>>)

\* of a value below 2^31
BigToNat(a) == Limb(a, 1) + LimbBase * Limb(a, 2)

\* the number of bits of x < 2^24
SmallBitLen(x) ==
    IF x = 0 THEN 0 ELSE CHOOSE k \in 1..LimbBits : 2^(k - 1) <= x /\ x < 2^k

\* the number of bits of a, for a without leading zero limbs
TrimmedBitLen(t) ==
    IF t = <<>> THEN 0 ELSE (Len(t) - 1) * LimbBits + SmallBitLen(t[Len(t)])

BitLen(a) == TrimmedBitLen(BTrim(a))

\* bit j of a, the least significant bit being bit 1
Bit(a, j) ==
    IF j < 1 THEN 0
    ELSE (Limb(a, ((j - 1) \div LimbBits) + 1) \div 2^((j - 1) % LimbBits)) % 2

\* a * 2^k
BShl(a, k) ==
    LET q == k \div LimbBits
        r == k % LimbBits
        s == [i \in 1..(Len(a) + 1) |->
                 (Limb(a, i) % 2^(LimbBits - r)) * 2^r
                 + Limb(a, i - 1) \div 2^(LimbBits - r)]
    IN  BTrim([i \in 1..q |-> 0] \o s)

\* a \div 2^k
BShr(a, k) ==
    LET q == k \div LimbBits
        r == k % LimbBits
    IN  BTrim([i \in 1..Max(Len(a) - q, 0) |->
                  Limb(a, i + q) \div 2^r
                  + (Limb(a, i + q + 1) % 2^r) * 2^(LimbBits - r)])

BAdd(a, b) ==
    LET n == Max(Len(a), Len(b)) + 1
        c[i \in 0..n] ==
            IF i = 0 THEN 0
            ELSE (Limb(a, i) + Limb(b, i) + c[i - 1]) \div LimbBase
    IN  BTrim([i \in 1..n |-> (Limb(a, i) + Limb(b, i) + c[i - 1]) % LimbBase])

\* a - b, for a >= b
BSub(a, b) ==
    LET n == Len(a)
        w[i \in 0..n] ==
            IF i = 0 THEN 0
            ELSE IF Limb(a, i) - Limb(b, i) - w[i - 1] < 0 THEN 1 ELSE 0
    IN  BTrim([i \in 1..n |->
                  (Limb(a, i) - Limb(b, i) - w[i - 1] + LimbBase) % LimbBase])

\* -1, 0, 1 as x < y, x = y, x > y, for x and y without leading zero limbs
TrimmedCmp(x, y) ==
    LET d == {i \in 1..Len(x) : Limb(x, i) # Limb(y, i)}
        h == CHOOSE i \in d : \A j \in d : j <= i
    IN  IF Len(x) > Len(y) THEN 1
        ELSE IF Len(x) < Len(y) THEN -1
        ELSE IF d = {} THEN 0
        ELSE IF x[h] > y[h] THEN 1 ELSE -1

BCmp(a, b) == TrimmedCmp(BTrim(a), BTrim(b))

\* the quotient q and the remainder r of a by the small divisor d
BDivSmall(a, d) ==
    LET n == Len(a)
        \* rem[i]: the remainder carried into limb i from the limbs above it
        rem[i \in 1..(n + 1)] ==
            IF i = n + 1 THEN 0 ELSE (rem[i + 1] * LimbBase + a[i]) % d
    IN  [q |-> BTrim([i \in 1..n |-> (rem[i + 1] * LimbBase + a[i]) \div d]),
         r |-> rem[1]]

\* a * k for a small factor k
BMulSmall(a, k) ==
    LET n == Len(a) + 1
        c[i \in 0..n] ==
            IF i = 0 THEN 0 ELSE (Limb(a, i) * k + c[i - 1]) \div LimbBase
    IN  BTrim([i \in 1..n |-> (Limb(a, i) * k + c[i - 1]) % LimbBase])

\* kept, the bits above the rounding position, rounded to nearest, ties to
\* even: half is the first bit dropped, sticky tells a lower bit is set
BRoundKept(kept, half, sticky) ==
    IF half /\ (sticky \/ Bit(kept, 1) = 1) THEN BAdd(kept, <<1>>) ELSE kept

\* a / 2^k rounded to the nearest integer, ties to even
BShrRound(a, k) ==
    IF k <= 0 THEN BShl(a, 0 - k)
    ELSE BRoundKept(BShr(a, k), Bit(a, k) = 1,
                    BShl(BShr(a, k - 1), k - 1) # BTrim(a))

(***************************************************************************)
(* IEEE-754 binary64 (Python float).  A double is [neg, m, e] and stands   *)
(* for (-1)^neg * m * 2^e with m of exactly 53 bits; zero has m = <<>>.    *)
(* Subnormals, infinities and NaN lie outside the amounts the model draws. *)
(***************************************************************************)
Precision == 53

DZero == [neg |-> FALSE, m |-> <<>>, e |-> 0]

\* (-1)^neg * r * 2^e, r of 53 bits, or of 54 bits when rounding carried
DNormal(neg, r, e) ==
    IF BitLen(r) > Precision
    THEN [neg |-> neg, m |-> BShr(r, 1), e |-> e + 1]
    ELSE [neg |-> neg, m |-> r, e |-> e]

\* the double nearest to (-1)^neg * M * 2^E, M of L bits
DRoundLen(neg, M, E, L) ==
    IF L = 0 THEN DZero
    ELSE IF L <= Precision
         THEN [neg |-> neg, m |-> BShl(M, Precision - L),
               e |-> E - (Precision - L)]
    ELSE DNormal(neg, BShrRound(M, L - Precision), E + (L - Precision))

\* the double nearest to (-1)^neg * M * 2^E
DRound(neg, M, E) == DRoundLen(neg, M, E, BitLen(M))

DNeg(x) == IF x.m = <<>> THEN x ELSE [x EXCEPT !.neg = ~x.neg]

DAbs(x) == [x EXCEPT !.neg = FALSE]

\* (-1)^xneg * MX * 2^E + (-1)^yneg * MY * 2^E, rounded
DAddAligned(xneg, MX, yneg, MY, E) ==
    DRound(IF xneg = yneg \/ BCmp(MX, MY) >= 0 THEN xneg ELSE yneg,
           IF xneg = yneg THEN BAdd(MX, MY)
           ELSE IF BCmp(MX, MY) >= 0 THEN BSub(MX, MY) ELSE BSub(MY, MX),
           E)

\* x + y
DAdd(x, y) ==
    IF x.m = <<>> THEN y
    ELSE IF y.m = <<>> THEN x
    ELSE DAddAligned(x.neg, BShl(x.m, x.e - Min(x.e, y.e)),
                     y.neg, BShl(y.m, y.e - Min(x.e, y.e)), Min(x.e, y.e))

\* x - y
DSub(x, y) == DAdd(x, DNeg(y))

\* x > y
DGt(x, y) ==
    IF x.m = <<>> THEN y.m # <<>> /\ y.neg
    ELSE IF y.m = <<>> THEN ~x.neg
    ELSE IF x.neg # y.neg THEN y.neg
    ELSE LET c == IF x.e > y.e THEN 1
                  ELSE IF x.e < y.e THEN -1
                  ELSE BCmp(x.m, y.m)
         IN  IF x.neg THEN c < 0 ELSE c > 0

\* x < 0
DIsNegative(x) == x.m # <<>> /\ x.neg

\* float("<n/100 written with two decimals>"): the double nearest to n / 100.
\* The quotient of n * 2^72 by 100 has more than 53 bits; a nonzero
\* remainder is kept as one more bit below it.
FracShift == 72

Abs(n) == IF n < 0 THEN 0 - n ELSE n

FromQuotient(neg, d) ==
    DRound(neg, BAdd(BShl(d.q, 1), IF d.r # 0 THEN <<1>> ELSE <<>>),
           0 - FracShift - 1)

FromCents(n) ==
    IF n = 0 THEN DZero
    ELSE FromQuotient(n < 0, BDivSmall(BShl(NatToBig(Abs(n)), FracShift), 100))

\* the integer part of |x|, for |x| < 2^31
DTrunc(x) ==
    IF x.m = <<>> THEN 0
    ELSE IF x.e >= 0 THEN BigToNat(BShl(x.m, x.e))
    ELSE BigToNat(BShr(x.m, 0 - x.e))

\* |x| * 100 rounded to an integer, ties to even: the digits of f"{x:.2f}"
DCentsRounded(x) ==
    IF x.m = <<>> THEN 0
    ELSE BigToNat(BShrRound(BMulSmall(x.m, 100), 0 - x.e))

(***************************************************************************)
(* Text (Python str)                                                       *)
(***************************************************************************)
Whitespace == {" ", "\t", "\n"}

\* Strip, had the value been tested without .strip()
StripNothing(s) == s

\* str.strip()
Strip(s) ==
    LET ink == {i \in 1..Len(s) : s[i] \notin Whitespace}
    IN  IF ink = {} THEN <<>>
        ELSE SubSeq(s, CHOOSE i \in ink : \A j \in ink : i <= j,
                       CHOOSE i \in ink : \A j \in ink : j <= i)

\* truth value of an Optional[str]: None and '' are false
Truthy(v) == v # None /\ v.str # <<>>

\* str.split('.')[0]: the text before the first period
SplitFirst(s) ==
    LET dots == {i \in 1..Len(s) : s[i] = "."}
    IN  IF dots = {} THEN s
        ELSE SubSeq(s, 1, (CHOOSE i \in dots : \A j \in dots : i <= j) - 1)

\* f"{v}" of an Optional[str]
Str(v) == IF v = None THEN <<"N", "o", "n", "e">> ELSE v.str

\* sep.join(items) raises TypeError when an item is not a str
JoinRaises(items) == \E i \in 1..Len(items) : items[i] = None

RECURSIVE Join(_, _)
Join(sep, items) ==
    IF items = <<>> THEN <<>>
    ELSE IF Len(items) = 1 THEN items[1].str
    ELSE items[1].str \o sep \o Join(sep, Tail(items))

(***************************************************************************)
(* Rendering of floats                                                     *)
(***************************************************************************)
TwoDigits(k) == IF k < 10 THEN "0" \o ToString(k) ELSE ToString(k)

\* repr() of the double nearest to n/100: the shortest decimal that reads
\* back as the same double, with at least one fraction digit
ReprCents(n) ==
    <<(IF n < 0 THEN "-" ELSE "") \o ToString(Abs(n) \div 100), ".",
      IF Abs(n) % 10 = 0 THEN ToString((Abs(n) % 100) \div 10)
      ELSE TwoDigits(Abs(n) % 100)>>

\* repr() of a computed double x.  When x is the double of a two-decimal
\* amount that amount is its repr; otherwise repr has up to 17 significant
\* digits, and the digits after the period are kept unexpanded.
ReprNear(x, n) ==
    IF FromCents(n) = x THEN ReprCents(n)
    ELSE <<(IF x.neg THEN "-" ELSE "") \o ToString(DTrunc(x)), ".",
           "digits of " \o ToString(x.m) \o " e " \o ToString(x.e)>>

Repr(x) ==
    ReprNear(x, IF x.neg THEN 0 - DCentsRounded(x) ELSE DCentsRounded(x))

\* f"{x:.2f}"
Fmt2fCents(neg, c) ==
    <<(IF neg THEN "-" ELSE "") \o ToString(c \div 100), ".", TwoDigits(c % 100)>>

Fmt2f(x) == Fmt2fCents(DIsNegative(x), DCentsRounded(x))

(***************************************************************************)
(* datetime.fromisoformat, for date strings.  The result is None where     *)
(* Python raises ValueError.  Strings with a time part, week dates and the *)
(* basic format YYYYMMDD are not among the values the model draws.         *)
(***************************************************************************)
DigitValue ==
    [c \in {"0", "1", "2", "3", "4", "5", "6", "7", "8", "9"} |->
        CASE c = "0" -> 0 [] c = "1" -> 1 [] c = "2" -> 2 [] c = "3" -> 3
          [] c = "4" -> 4 [] c = "5" -> 5 [] c = "6" -> 6 [] c = "7" -> 7
          [] c = "8" -> 8 [] c = "9" -> 9]

IsDigit(c) == c \in DOMAIN DigitValue

IsLeap(y) == (y % 4 = 0 /\ y % 100 # 0) \/ y % 400 = 0

DaysInMonth(y, m) ==
    IF m = 2 THEN (IF IsLeap(y) THEN 29 ELSE 28)
    ELSE IF m \in {4, 6, 9, 11} THEN 30 ELSE 31

fromisoformat(s) ==
    IF /\ Len(s) = 10
       /\ \A i \in {1, 2, 3, 4, 6, 7, 9, 10} : IsDigit(s[i])
       /\ s[5] = "-" /\ s[8] = "-"
    THEN LET y == 1000 * DigitValue[s[1]] + 100 * DigitValue[s[2]]
                  + 10 * DigitValue[s[3]] + DigitValue[s[4]]
             m == 10 * DigitValue[s[6]] + DigitValue[s[7]]
             d == 10 * DigitValue[s[9]] + DigitValue[s[10]]
         IN  IF y >= 1 /\ m >= 1 /\ m <= 12 /\ d >= 1 /\ d <= DaysInMonth(y, m)
             THEN [year |-> y, month |-> m, day |-> d]
             ELSE None
    ELSE None

\* DateLess, had the comparison been due_dt <= invoice_dt
DateLessOrEqual(a, b) ==
    \/ a.year < b.year
    \/ a.year = b.year /\ a.month < b.month
    \/ a.year = b.year /\ a.month = b.month /\ a.day <= b.day

\* dt1 < dt2
DateLess(a, b) ==
    \/ a.year < b.year
    \/ a.year = b.year /\ a.month < b.month
    \/ a.year = b.year /\ a.month = b.month /\ a.day < b.day

(***************************************************************************)
(* models.py                                                               *)
(***************************************************************************)
LineItem(description, quantity, unit_price, line_total) ==
    [description |-> description, quantity |-> quantity,
     unit_price |-> unit_price, line_total |-> line_total]

\* Invoice(): every field absent, no line items
Invoice ==
    [invoice_number |-> None, external_reference |-> None,
     invoice_date |-> None, due_date |-> None,
     seller_name |-> None, seller_address |-> None, seller_tax_id |-> None,
     buyer_name |-> None, buyer_address |-> None, buyer_tax_id |-> None,
     currency |-> None, net_total |-> None, tax_amount |-> None,
     gross_total |-> None, payment_terms |-> None,
     line_items |-> <<>>, source_file |-> None]

ValidationError(rule, message, field) ==
    [rule |-> rule, message |-> message, field |-> field]

(***************************************************************************)
(* rules.py                                                                *)
(***************************************************************************)
REQUIRED_FIELDS ==
    <<"invoice_number", "invoice_date", "seller_name", "buyer_name",
      "currency", "gross_total">>

TEXT_FIELDS ==
    {"invoice_number", "external_reference", "invoice_date", "due_date",
     "seller_name", "seller_address", "seller_tax_id", "buyer_name",
     "buyer_address", "buyer_tax_id", "currency", "payment_terms",
     "source_file"}

\* isinstance(value, str)
IsStr(invoice, field) == field \in TEXT_FIELDS /\ invoice[field] # None

RECURSIVE RequiredFieldErrors(_, _)
RequiredFieldErrors(invoice, fields) ==
    IF fields = <<>> THEN <<>>
    ELSE LET field == Head(fields)
             value == invoice[field]
             missing == \/ value = None
                        \/ IsStr(invoice, field) /\ Strip(value.str) = <<>>
         IN  (IF missing
              THEN <<ValidationError("required_fields",
                        <<"Required field '", field, "' is missing or empty">>,
                        field)>>
              ELSE <<>>)
             \o RequiredFieldErrors(invoice, Tail(fields))

RequiredFieldRule(invoice) == RequiredFieldErrors(invoice, REQUIRED_FIELDS)

MIN_YEAR == 1900
MAX_YEAR == 2100

_is_valid_date(date_str) ==
    LET dt == fromisoformat(date_str.str)
    IN  dt # None /\ MIN_YEAR <= dt.year /\ dt.year <= MAX_YEAR

DateFormatRule(invoice) ==
    (IF Truthy(invoice.invoice_date) /\ ~_is_valid_date(invoice.invoice_date)
     THEN <<ValidationError("date_format",
               <<"Invalid invoice_date format: ">> \o invoice.invoice_date.str,
               "invoice_date")>>
     ELSE <<>>)
    \o
    (IF Truthy(invoice.due_date) /\ ~_is_valid_date(invoice.due_date)
     THEN <<ValidationError("date_format",
               <<"Invalid due_date format: ">> \o invoice.due_date.str,
               "due_date")>>
     ELSE <<>>)

VALID_CURRENCIES ==
    {<<"E", "U", "R">>, <<"U", "S", "D">>, <<"G", "B", "P">>,
     <<"I", "N", "R">>, <<"J", "P", "Y">>, <<"C", "N", "Y">>,
     <<"C", "A", "D">>, <<"A", "U", "D">>, <<"C", "H", "F">>,
     <<"S", "E", "K">>}

\* ', '.join(sorted(VALID_CURRENCIES))
SortedCurrencies ==
    Join(<<",", " ">>,
         <<Text(<<"A", "U", "D">>), Text(<<"C", "A", "D">>),
           Text(<<"C", "H", "F">>), Text(<<"C", "N", "Y">>),
           Text(<<"E", "U", "R">>), Text(<<"G", "B", "P">>),
           Text(<<"I", "N", "R">>), Text(<<"J", "P", "Y">>),
           Text(<<"S", "E", "K">>), Text(<<"U", "S", "D">>)>>)

CurrencyValidationRule(invoice) ==
    IF Truthy(invoice.currency) /\ invoice.currency.str \notin VALID_CURRENCIES
    THEN <<ValidationError("currency_validation",
              <<"Unknown currency code: ">> \o invoice.currency.str
                  \o <<".", " Valid: ">> \o SortedCurrencies,
              "currency")>>
    ELSE <<>>

DueDateRule(invoice) ==
    IF Truthy(invoice.invoice_date) /\ Truthy(invoice.due_date)
    THEN LET invoice_dt == fromisoformat(invoice.invoice_date.str)
             due_dt     == fromisoformat(invoice.due_date.str)
         IN  IF invoice_dt # None /\ due_dt # None /\ DateLess(due_dt, invoice_dt)
             THEN <<ValidationError("due_date_logic",
                       <<"Due date (">> \o invoice.due_date.str
                           \o <<") is before invoice date (">>
                           \o invoice.invoice_date.str \o <<")">>,
                       "due_date")>>
             ELSE <<>>
    ELSE <<>>

\* tolerance: float = 0.02
ToleranceCents == 2
tolerance == FromCents(ToleranceCents)

TotalsMatchRule(invoice) ==
    IF /\ invoice.net_total # None
       /\ invoice.tax_amount # None
       /\ invoice.gross_total # None
    THEN LET calculated_total == DAdd(FromCents(invoice.net_total.cents),
                                      FromCents(invoice.tax_amount.cents))
             difference == DAbs(DSub(calculated_total,
                                     FromCents(invoice.gross_total.cents)))
         IN  IF DGt(difference, tolerance)
             THEN <<ValidationError("totals_match",
                       <<"Totals mismatch: ">>
                           \o ReprCents(invoice.net_total.cents) \o <<" + ">>
                           \o ReprCents(invoice.tax_amount.cents) \o <<" = ">>
                           \o Repr(calculated_total)
                           \o <<", but gross_total is ">>
                           \o ReprCents(invoice.gross_total.cents)
                           \o <<" (diff: ">> \o Fmt2f(difference) \o <<")">>,
                       "gross_total")>>
             ELSE <<>>
    ELSE <<>>

\* sum(item.line_total for item in line_items if item.line_total is not None):
\* the additions are made from left to right, starting from the integer 0,
\* each rounded (CPython up to 3.11; from 3.12 on sum() compensates the
\* rounding errors of more than one addition)
RECURSIVE SumLineTotals(_, _)
SumLineTotals(items, acc) ==
    IF items = <<>> THEN acc
    ELSE SumLineTotals(Tail(items),
            IF Head(items).line_total # None
            THEN DAdd(acc, FromCents(Head(items).line_total.cents))
            ELSE acc)

LineItemsTotalRule(invoice) ==
    IF invoice.net_total # None /\ invoice.line_items # <<>>
    THEN LET line_items_sum == SumLineTotals(invoice.line_items, DZero)
             net        == FromCents(invoice.net_total.cents)
             difference == DAbs(DSub(line_items_sum, net))
         IN  IF DGt(line_items_sum, DZero) /\ DGt(difference, tolerance)
             THEN <<ValidationError("line_items_total",
                       <<"Line items sum (">> \o Fmt2f(line_items_sum)
                           \o <<") doesn't match net_total (">> \o Fmt2f(net)
                           \o <<"), diff: ">> \o Fmt2f(difference),
                       "line_items")>>
             ELSE <<>>
    ELSE <<>>

AMOUNT_FIELDS == <<"net_total", "tax_amount", "gross_total">>

RECURSIVE NegativeAmountErrors(_, _)
NegativeAmountErrors(invoice, fields) ==
    IF fields = <<>> THEN <<>>
    ELSE LET field == Head(fields)
             value == invoice[field]
         IN  (IF value # None /\ value.cents < 0
              THEN <<ValidationError("no_negative_amounts",
                        <<"Field '", field, "' has negative value: ">>
                            \o ReprCents(value.cents),
                        field)>>
              ELSE <<>>)
             \o NegativeAmountErrors(invoice, Tail(fields))

NegativeAmountsRule(invoice) == NegativeAmountErrors(invoice, AMOUNT_FIELDS)

\* the list comprehension of DuplicateInvoiceRule.validate
Duplicates(invoice, all_invoices) ==
    SelectSeq(all_invoices,
              LAMBDA inv : /\ inv.invoice_number = invoice.invoice_number
                           /\ inv.seller_name = invoice.seller_name
                           /\ inv.invoice_date = invoice.invoice_date
                           /\ inv.source_file # invoice.source_file)

DupFiles(invoice, all_invoices) ==
    LET duplicates == Duplicates(invoice, all_invoices)
    IN  [i \in 1..Len(duplicates) |-> duplicates[i].source_file]

\* ', '.join(dup_files) raises TypeError: the rule does not return
DuplicateInvoiceRuleRaises(invoice, all_invoices) ==
    /\ all_invoices # <<>>
    /\ Truthy(invoice.invoice_number)
    /\ JoinRaises(DupFiles(invoice, all_invoices))

DuplicateInvoiceRule(invoice, all_invoices) ==
    IF all_invoices = <<>> \/ ~Truthy(invoice.invoice_number) THEN <<>>
    ELSE LET dup_files == DupFiles(invoice, all_invoices)
         IN  IF dup_files # <<>>
             THEN <<ValidationError("no_duplicates",
                       <<"Duplicate invoice detected", ".",
                         " Same invoice_number (">>
                           \o invoice.invoice_number.str \o <<") from ">>
                           \o Str(invoice.seller_name) \o <<" on ">>
                           \o Str(invoice.invoice_date)
                           \o <<".", " Duplicates in: ">>
                           \o Join(<<",", " ">>, dup_files),
                       "invoice_number")>>
             ELSE <<>>

Rule(name, severity) == [name |-> name, severity |-> severity]

\* ALL_RULES, had LineItemsTotalRule kept the default severity
CatalogOfErrorsOnly ==
    <<Rule("required_fields", "error"),
      Rule("date_format", "error"),
      Rule("currency_validation", "error"),
      Rule("due_date_logic", "error"),
      Rule("totals_match", "error"),
      Rule("line_items_total", "error"),
      Rule("no_negative_amounts", "error"),
      Rule("no_duplicates", "error")>>

ALL_RULES ==
    <<Rule("required_fields", "error"),
      Rule("date_format", "error"),
      Rule("currency_validation", "error"),
      Rule("due_date_logic", "error"),
      Rule("totals_match", "error"),
      Rule("line_items_total", "warning"),
      Rule("no_negative_amounts", "error"),
      Rule("no_duplicates", "error")>>

\* rule.validate(invoice, all_invoices), dispatched on the rule's class
Validate(rule, invoice, all_invoices) ==
    CASE rule.name = "required_fields"     -> RequiredFieldRule(invoice)
      [] rule.name = "date_format"         -> DateFormatRule(invoice)
      [] rule.name = "currency_validation" -> CurrencyValidationRule(invoice)
      [] rule.name = "due_date_logic"      -> DueDateRule(invoice)
      [] rule.name = "totals_match"        -> TotalsMatchRule(invoice)
      [] rule.name = "line_items_total"    -> LineItemsTotalRule(invoice)
      [] rule.name = "no_negative_amounts" -> NegativeAmountsRule(invoice)
      [] rule.name = "no_duplicates"       ->
             DuplicateInvoiceRule(invoice, all_invoices)

ValidateRaises(rule, invoice, all_invoices) ==
    rule.name = "no_duplicates"
        /\ DuplicateInvoiceRuleRaises(invoice, all_invoices)

(***************************************************************************)
(* validator.py                                                            *)
(***************************************************************************)
UNKNOWN == Text(<<"u", "n", "k", "n", "o", "w", "n">>)

\* InvoiceId, had the fields been tested with "is not None"
InvoiceIdOfPresent(invoice) ==
    IF invoice.invoice_number # None THEN invoice.invoice_number
    ELSE IF invoice.source_file # None THEN invoice.source_file
    ELSE UNKNOWN

\* invoice.invoice_number or invoice.source_file or 'unknown'
InvoiceId(invoice) ==
    IF Truthy(invoice.invoice_number) THEN invoice.invoice_number
    ELSE IF Truthy(invoice.source_file) THEN invoice.source_file
    ELSE UNKNOWN

\* rule_errors of each rule, in the order of the rules
RuleErrors(rules, invoice, all_invoices) ==
    [k \in 1..Len(rules) |-> Validate(rules[k], invoice, all_invoices)]

\* the findings appended to errors (warning = FALSE) or to warnings
\* (warning = TRUE) by the rules from the k-th on
RECURSIVE Routed(_, _, _, _)
Routed(rules, rule_errors, warning, k) ==
    IF k > Len(rules) THEN <<>>
    ELSE (IF (rules[k].severity = "warning") = warning
          THEN rule_errors[k] ELSE <<>>)
         \o Routed(rules, rule_errors, warning, k + 1)

\* IsValid, had the warnings counted against validity
IsValidWithoutFindings(errors, warnings) == Len(errors) = 0 /\ Len(warnings) = 0

IsValid(errors, warnings) == Len(errors) = 0

InvoiceValidationResult(invoice_id, errors, warnings) ==
    [invoice_id |-> invoice_id,
     is_valid   |-> IsValid(errors, warnings),
     errors     |-> errors,
     warnings   |-> warnings]

RoutedResult(rules, invoice, rule_errors) ==
    InvoiceValidationResult(InvoiceId(invoice),
                            Routed(rules, rule_errors, FALSE, 1),
                            Routed(rules, rule_errors, TRUE, 1))

validate_invoice(rules, invoice, all_invoices) ==
    RoutedResult(rules, invoice, RuleErrors(rules, invoice, all_invoices))

\* an exception leaves validate_invoice
validate_invoice_raises(rules, invoice, all_invoices) ==
    \E k \in 1..Len(rules) : ValidateRaises(rules[k], invoice, all_invoices)

\* f"{error.rule}: {error.message.split('.')[0]}"
CountKey(error) == <<error.rule, ": ">> \o SplitFirst(error.message)

\* counts[key] = counts.get(key, 0) + 1, for each finding in turn
RECURSIVE CountFindings(_, _)
CountFindings(findings, counts) ==
    IF findings = <<>> THEN counts
    ELSE LET key == CountKey(Head(findings))
         IN  CountFindings(Tail(findings),
                IF key \in DOMAIN counts
                THEN [counts EXCEPT ![key] = @ + 1]
                ELSE counts @@ (key :> 1))

RECURSIVE AllFindings(_, _)
AllFindings(results, kind) ==
    IF results = <<>> THEN <<>>
    ELSE Head(results)[kind] \o AllFindings(Tail(results), kind)

EmptyDict == [k \in {} |-> 0]

\* _generate_summary, had the valid invoices been counted by invoice_id
SummaryByInvoiceId(results) ==
    LET total == Len(results)
        valid == Cardinality({results[i].invoice_id :
                                 i \in {j \in 1..Len(results) : results[j].is_valid}})
    IN  [total_invoices   |-> total,
         valid_invoices   |-> valid,
         invalid_invoices |-> total - valid,
         error_counts     |-> CountFindings(AllFindings(results, "errors"),
                                            EmptyDict),
         warning_counts   |-> CountFindings(AllFindings(results, "warnings"),
                                            EmptyDict)]

_generate_summary(results) ==
    LET total == Len(results)
        valid == Cardinality({i \in 1..Len(results) : results[i].is_valid})
    IN  [total_invoices   |-> total,
         valid_invoices   |-> valid,
         invalid_invoices |-> total - valid,
         error_counts     |-> CountFindings(AllFindings(results, "errors"),
                                            EmptyDict),
         warning_counts   |-> CountFindings(AllFindings(results, "warnings"),
                                            EmptyDict)]

(***************************************************************************)
(* extractor.py: the per-document loop.  A document is a file of the       *)
(* directory: its name and what the field extractors find in it, or        *)
(* Unreadable when processing it raises.                                   *)
(***************************************************************************)
Unreadable == [unreadable |-> TRUE]

PdfSuffix == <<".", "p", "d", "f">>

\* fnmatch of the name against '*.pdf'
EndsWithPdf(name) ==
    Len(name.str) >= Len(PdfSuffix)
        /\ SubSeq(name.str, Len(name.str) - Len(PdfSuffix) + 1, Len(name.str))
               = PdfSuffix

\* list(pdf_dir.glob('*.pdf')), in the order of the directory listing
Glob(directory) == SelectSeq(directory, LAMBDA f : EndsWithPdf(f.name))

\* extract_from_pdf, had the except branch kept what was found of the
\* document before it failed, here a number taken from the name of the file
ExtractKeepingPartialData(file) ==
    IF file.content = Unreadable
    THEN [Invoice EXCEPT !.source_file = file.name,
                         !.invoice_number = file.name]
    ELSE [file.content EXCEPT !.source_file = file.name]

\* extract_from_pdf, had the except branch returned Invoice()
ExtractWithoutSourceFile(file) ==
    IF file.content = Unreadable
    THEN Invoice
    ELSE [file.content EXCEPT !.source_file = file.name]

extract_from_pdf(file) ==
    IF file.content = Unreadable
    THEN [Invoice EXCEPT !.source_file = file.name]
    ELSE [file.content EXCEPT !.source_file = file.name]

(***************************************************************************)
(* extractor.py: the methods that read one value.  A str argument is a     *)
(* sequence of one-character strings, a cell of a table is None or         *)
(* Text(s), a list is a sequence.                                          *)
(***************************************************************************)
\* the letters that str.lower() changes, and what it makes of them
Letters ==
    [upper |->
         <<"A", "B", "C", "D", "E", "F", "G", "H", "I", "J", "K", "L", "M",
           "N", "O", "P", "Q", "R", "S", "T", "U", "V", "W", "X", "Y", "Z">>,
     lower |->
         <<"a", "b", "c", "d", "e", "f", "g", "h", "i", "j", "k", "l", "m",
           "n", "o", "p", "q", "r", "s", "t", "u", "v", "w", "x", "y", "z">>]

\* str.lower()
Lower(s) ==
    [i \in 1..Len(s) |->
        IF \E k \in 1..Len(Letters.upper) : Letters.upper[k] = s[i]
        THEN Letters.lower[CHOOSE k \in 1..Len(Letters.upper) :
                               Letters.upper[k] = s[i]]
        ELSE s[i]]

\* w in s, for two str
In(w, s) ==
    \E i \in 1..(Len(s) - Len(w) + 1) : SubSeq(s, i, i + Len(w) - 1) = w

\* the value of a string of digits
RECURSIVE DigitsValue(_)
DigitsValue(s) ==
    IF s = <<>> THEN 0
    ELSE 10 * DigitsValue(SubSeq(s, 1, Len(s) - 1)) + DigitValue[s[Len(s)]]

\* float(s) of a str, None where Python raises ValueError.  An exponent,
\* underscores between digits, 'inf', 'nan' and digits other than 0-9 are
\* not in the strings the model draws; -0.0 is held as Float(0), which it
\* equals.  The float nearest to n / 10^k is Float(cents) where the
\* decimal has no more than two decimals that count, and the decimal
\* itself otherwise.
float(s) ==
    LET RECURSIVE Decimal(_, _)
        Decimal(n, k) ==
            IF k = 2 THEN Float(n)
            ELSE IF k < 2 THEN Decimal(10 * n, k + 1)
            ELSE IF n % 10 = 0 THEN Decimal(n \div 10, k - 1)
            ELSE [decimal |-> n, places |-> k]
        t == Strip(s)
        signed == t # <<>> /\ t[1] \in {"+", "-"}
        body == IF signed THEN Tail(t) ELSE t
        points == {i \in 1..Len(body) : body[i] = "."}
        digits == SelectSeq(body, LAMBDA c : c # ".")
    IN  IF \/ digits = <<>>
           \/ \E i \in 1..Len(digits) : ~IsDigit(digits[i])
           \/ Cardinality(points) > 1
        THEN None
        ELSE Decimal((IF t[1] = "-" THEN 0 - 1 ELSE 1) * DigitsValue(digits),
                     IF points = {} THEN 0
                     ELSE Len(body) - CHOOSE i \in points : TRUE)

\* _parse_amount, had it left the commas in the string
ParseAmountKeepingCommas(amount_str) ==
    LET value == float(Strip(amount_str))
    IN  IF value = None THEN Float(0) ELSE value

_parse_amount(amount_str) ==
    LET value == float(Strip(SelectSeq(amount_str, LAMBDA c : c # ",")))
    IN  IF value = None THEN Float(0) ELSE value

\* the words the headers of a table are searched for
Word ==
    [description |-> <<"d", "e", "s", "c", "r", "i", "p", "t", "i", "o", "n">>,
     item |-> <<"i", "t", "e", "m">>,
     product |-> <<"p", "r", "o", "d", "u", "c", "t">>,
     qty |-> <<"q", "t", "y">>,
     quantity |-> <<"q", "u", "a", "n", "t", "i", "t", "y">>,
     amount |-> <<"a", "m", "o", "u", "n", "t">>,
     price |-> <<"p", "r", "i", "c", "e">>,
     rate |-> <<"r", "a", "t", "e">>,
     unit |-> <<"u", "n", "i", "t">>,
     total |-> <<"t", "o", "t", "a", "l">>]

\* the body of the loop of _parse_line_item_row, for one cell that is not
\* skipped; cell is stripped already
ParseCell(cell, col_name, item) ==
    IF \/ In(Word.description, col_name)
       \/ In(Word.item, col_name)
       \/ In(Word.product, col_name)
    THEN [item EXCEPT !.description = Text(cell)]
    ELSE IF In(Word.qty, col_name) \/ In(Word.quantity, col_name)
    THEN IF float(SelectSeq(cell, LAMBDA c : c # ",")) = None THEN item
         ELSE [item EXCEPT !.quantity = float(SelectSeq(cell, LAMBDA c : c # ","))]
    ELSE IF In(Word.unit, col_name) /\ In(Word.price, col_name)
    THEN [item EXCEPT !.unit_price = _parse_amount(cell)]
    ELSE IF In(Word.total, col_name) \/ In(Word.amount, col_name)
    THEN [item EXCEPT !.line_total = _parse_amount(cell)]
    ELSE item

\* the loop over the cells, from the cell at idx on (idx from 1)
_parse_line_item_row(row, header) ==
    LET RECURSIVE ParseCells(_, _)
        ParseCells(idx, item) ==
            IF idx > Len(row) THEN item
            ELSE ParseCells(idx + 1,
                     IF ~Truthy(row[idx]) \/ idx > Len(header) THEN item
                     ELSE ParseCell(Strip(row[idx].str), header[idx], item))
    IN  ParseCells(1, LineItem(None, None, None, None))

\* [str(cell).lower() if cell else '' for cell in table[0]]
Header(table) ==
    [i \in 1..Len(table[1]) |->
        IF Truthy(table[1][i]) THEN Lower(table[1][i].str) ELSE <<>>]

has_description(header) ==
    \E i \in 1..Len(header) :
        \/ In(Word.description, header[i])
        \/ In(Word.item, header[i])
        \/ In(Word.product, header[i])

has_quantity(header) ==
    \E i \in 1..Len(header) :
        \/ In(Word.qty, header[i])
        \/ In(Word.quantity, header[i])
        \/ In(Word.amount, header[i])

has_price(header) ==
    \E i \in 1..Len(header) :
        \/ In(Word.price, header[i])
        \/ In(Word.rate, header[i])
        \/ In(Word.unit, header[i])

\* what one turn of the loop over the tables appends to line_items
ItemsOfTable(table) ==
    LET RECURSIVE ItemsOfRows(_)
        ItemsOfRows(rows) ==
            IF rows = <<>> THEN <<>>
            ELSE IF \A i \in 1..Len(rows[1]) : ~Truthy(rows[1][i])
            THEN ItemsOfRows(Tail(rows))
            ELSE IF Truthy(_parse_line_item_row(rows[1], Header(table)).description)
            THEN <<_parse_line_item_row(rows[1], Header(table))>>
                     \o ItemsOfRows(Tail(rows))
            ELSE ItemsOfRows(Tail(rows))
    IN  IF Len(table) < 2 THEN <<>>
        ELSE IF /\ has_description(Header(table))
                /\ has_quantity(Header(table)) \/ has_price(Header(table))
        THEN ItemsOfRows(Tail(table))
        ELSE <<>>

RECURSIVE _extract_line_items(_)
_extract_line_items(tables) ==
    IF tables = <<>> THEN <<>>
    ELSE ItemsOfTable(tables[1]) \o _extract_line_items(Tail(tables))

\* the codes of CURRENCY_PATTERNS[0]
CURRENCY_PATTERNS ==
    {<<"U", "S", "D">>, <<"E", "U", "R">>, <<"G", "B", "P">>,
     <<"I", "N", "R">>, <<"J", "P", "Y">>, <<"C", "N", "Y">>,
     <<"C", "A", "D">>, <<"A", "U", "D">>}

\* the symbols of CURRENCY_PATTERNS[1], and self.currency_map.  The
\* characters that are not ASCII are written by their names: the euro
\* sign, the pound sign and the yen sign.
currency_map ==
    [c \in {"euro", "$", "pound", "yen"} |->
        CASE c = "euro" -> <<"E", "U", "R">>
          [] c = "$" -> <<"U", "S", "D">>
          [] c = "pound" -> <<"G", "B", "P">>
          [] c = "yen" -> <<"J", "P", "Y">>]

\* the positions where CURRENCY_PATTERNS[0] matches: one of the codes,
\* with \b before it and after it (a word character, which is a letter, a
\* digit or the underscore, on one side only)
CodeMatches(text) ==
    LET IsWordChar(c) ==
            \/ IsDigit(c)
            \/ c = "_"
            \/ \E k \in 1..Len(Letters.upper) :
                   c = Letters.upper[k] \/ c = Letters.lower[k]
        IsBoundary(i) ==
            (i > 1 /\ IsWordChar(text[i - 1]))
                # (i <= Len(text) /\ IsWordChar(text[i]))
    IN  {i \in 1..(Len(text) - 2) :
            /\ SubSeq(text, i, i + 2) \in CURRENCY_PATTERNS
            /\ IsBoundary(i)
            /\ IsBoundary(i + 3)}

\* re.search finds the leftmost match of a pattern; the patterns are tried
\* in order
_extract_currency(text) ==
    LET codes == CodeMatches(text)
        symbols == {i \in 1..Len(text) : text[i] \in DOMAIN currency_map}
        first_code == CHOOSE i \in codes : \A j \in codes : i <= j
        first_symbol == CHOOSE i \in symbols : \A j \in symbols : i <= j
    IN  IF codes # {} THEN Text(SubSeq(text, first_code, first_code + 2))
        ELSE IF symbols # {} THEN Text(currency_map[text[first_symbol]])
        ELSE None

\* the list date_formats: the directives of each format in their order,
\* and what stands between them (a blank of the format is one or more
\* characters of white space in the string)
date_formats ==
    <<[fields |-> <<"d", "m", "Y">>, sep |-> "/"],
      [fields |-> <<"m", "d", "Y">>, sep |-> "/"],
      [fields |-> <<"Y", "m", "d">>, sep |-> "-"],
      [fields |-> <<"d", "m", "Y">>, sep |-> "-"],
      [fields |-> <<"d", "m", "Y">>, sep |-> "."],
      [fields |-> <<"d", "B", "Y">>, sep |-> " "],
      [fields |-> <<"d", "b", "Y">>, sep |-> " "]>>

\* datetime.strptime(data, fmt), None where it raises ValueError.  %d is
\* 1-9, 01-31 or a blank and 1-9; %m is 1-9 or 01-12; %Y is four digits;
\* the names of the months (%B) are matched without regard to case, %b is
\* their first three letters; the whole of data has to match, and the day has to be a day of the month.
strptime(data, fmt) ==
    LET MonthNames ==
        <<<<"j", "a", "n", "u", "a", "r", "y">>,
          <<"f", "e", "b", "r", "u", "a", "r", "y">>,
          <<"m", "a", "r", "c", "h">>,
          <<"a", "p", "r", "i", "l">>,
          <<"m", "a", "y">>,
          <<"j", "u", "n", "e">>,
          <<"j", "u", "l", "y">>,
          <<"a", "u", "g", "u", "s", "t">>,
          <<"s", "e", "p", "t", "e", "m", "b", "e", "r">>,
          <<"o", "c", "t", "o", "b", "e", "r">>,
          <<"n", "o", "v", "e", "m", "b", "e", "r">>,
          <<"d", "e", "c", "e", "m", "b", "e", "r">>>>
        seps == IF fmt.sep = " " THEN Whitespace ELSE {fmt.sep}
        at == {i \in 1..Len(data) : data[i] \in seps}
        a == CHOOSE i \in at : \A j \in at : i <= j
        b == CHOOSE i \in at : \A j \in at : j <= i
        tokens ==
            <<SubSeq(data, 1, a - 1),
              IF fmt.sep = " " THEN Strip(SubSeq(data, a, b))
              ELSE SubSeq(data, a + 1, b - 1),
              SubSeq(data, b + 1, Len(data))>>
        IsNumber(t) == t # <<>> /\ \A i \in 1..Len(t) : IsDigit(t[i])
        Matches(t, directive) ==
            CASE directive = "d" ->
                     \/ Len(t) = 2 /\ t[1] = " " /\ IsDigit(t[2]) /\ t[2] # "0"
                     \/ /\ IsNumber(t)
                        /\ Len(t) <= 2
                        /\ DigitsValue(t) \in 1..31
              [] directive = "m" ->
                     IsNumber(t) /\ Len(t) <= 2 /\ DigitsValue(t) \in 1..12
              [] directive = "Y" -> IsNumber(t) /\ Len(t) = 4
              [] directive = "B" ->
                     \E m \in 1..12 : Lower(t) = MonthNames[m]
              [] directive = "b" ->
                     \E m \in 1..12 : Lower(t) = SubSeq(MonthNames[m], 1, 3)
        Value(t, directive) ==
            CASE directive = "B" ->
                     CHOOSE m \in 1..12 : Lower(t) = MonthNames[m]
              [] directive = "b" ->
                     CHOOSE m \in 1..12 : Lower(t) = SubSeq(MonthNames[m], 1, 3)
              [] OTHER -> DigitsValue(SelectSeq(t, LAMBDA c : c # " "))
        Field(directives) ==
            LET k == CHOOSE k \in 1..3 : fmt.fields[k] \in directives
            IN  Value(tokens[k], fmt.fields[k])
    IN  IF /\ at # {}
           /\ a < b
           /\ fmt.sep # " " => Cardinality(at) = 2
           /\ \A k \in 1..3 : Matches(tokens[k], fmt.fields[k])
           /\ Field({"Y"}) >= 1
           /\ Field({"d"}) <= DaysInMonth(Field({"Y"}), Field({"m", "B", "b"}))
        THEN [year |-> Field({"Y"}), month |-> Field({"m", "B", "b"}),
              day |-> Field({"d"})]
        ELSE None

\* dt.strftime('%Y-%m-%d').  What %Y gives for a year before 1000 is left
\* to the C library: four digits with zeros in front, or the digits of the
\* year alone (glibc).
strftime(dt, padded) ==
    LET Char(d) == CHOOSE c \in DOMAIN DigitValue : DigitValue[c] = d
        year == <<Char(dt.year \div 1000), Char((dt.year \div 100) % 10),
                  Char((dt.year \div 10) % 10), Char(dt.year % 10)>>
        from == CHOOSE i \in 1..4 :
                    year[i] # "0" /\ \A j \in 1..(i - 1) : year[j] = "0"
    IN  (IF padded THEN year ELSE SubSeq(year, from, 4))
            \o <<"-", Char(dt.month \div 10), Char(dt.month % 10),
                 "-", Char(dt.day \div 10), Char(dt.day % 10)>>

\* the formats are tried in their order on the stripped string; the string
\* itself is returned when none of them parses it
_normalize_date(date_str, padded) ==
    LET RECURSIVE Try(_)
        Try(k) ==
            IF k > Len(date_formats) THEN date_str
            ELSE IF strptime(Strip(date_str), date_formats[k]) # None
            THEN strftime(strptime(Strip(date_str), date_formats[k]), padded)
            ELSE Try(k + 1)
    IN  Try(1)

(***************************************************************************)
(* The values the inputs are drawn from                                    *)
(***************************************************************************)
INV1 == Text(<<"I", "N", "V", "-", "1">>)
Acme == Text(<<"A", "c", "m", "e">>)
Bob  == Text(<<"B", "o", "b">>)
EUR  == Text(<<"E", "U", "R">>)
Blank == Text(<<" ">>)
Empty == Text(<<>>)
Jan1 == Text(<<"2", "0", "2", "4", "-", "0", "1", "-", "0", "1">>)
Feb1 == Text(<<"2", "0", "2", "4", "-", "0", "2", "-", "0", "1">>)
APdf == Text(<<"a", ".", "p", "d", "f">>)
BPdf == Text(<<"b", ".", "p", "d", "f">>)
CTxt == Text(<<"c", ".", "t", "x", "t">>)
DPdf == Text(<<"d", ".", "p", "d", "f">>)

\* a record that passes every rule
ValidInvoice ==
    [Invoice EXCEPT !.invoice_number = INV1, !.invoice_date = Jan1,
                    !.due_date = Feb1, !.seller_name = Acme,
                    !.buyer_name = Bob, !.currency = EUR,
                    !.net_total = Float(10000), !.tax_amount = Float(2000),
                    !.gross_total = Float(12000), !.source_file = APdf]

\* the most invoices in a batch, files in a directory, line items in an
\* invoice; the largest amount, in cents, of the small amounts
MaxBatch == 3
MaxFiles == 3
MaxItems == 2
MaxCents == 7

SeqsUpTo(S, n) == UNION {[1..k -> S] : k \in 0..n}

Optional(S) == {None} \cup S

\* records that differ in the fields the duplicate rule reads
IdentityInvoices ==
    {[ValidInvoice EXCEPT !.invoice_number = p[1], !.seller_name = p[2],
                          !.source_file = p[3]] :
        p \in {<<INV1, Acme, APdf>>, <<INV1, Acme, BPdf>>, <<INV1, Acme, None>>,
               <<None, Acme, APdf>>, <<INV1, None, APdf>>, <<INV1, None, BPdf>>,
               <<Empty, Acme, APdf>>, <<Empty, Acme, BPdf>>}}

\* records of one file that differ in their totals and line items
AmountInvoices ==
    {[ValidInvoice EXCEPT !.net_total = Float(p[1]), !.gross_total = Float(p[2]),
                          !.line_items = p[3]] :
        p \in {<<10000, 12000, <<>>>>,
               <<10000, 12500, <<>>>>,
               <<20000, 22500, <<>>>>,
               <<10000, 12000, <<LineItem(Acme, None, None, Float(15000))>>>>,
               <<20000, 22000, <<LineItem(Acme, None, None, Float(25000))>>>>}}

\* one record, drawn field by field
SmallAmounts == {Float(n) : n \in 0..MaxCents}

TotalsInvoices ==
    {[ValidInvoice EXCEPT !.net_total = p[1], !.tax_amount = p[2],
                          !.gross_total = p[3]] :
        p \in Optional(SmallAmounts \cup {Float(10000)})
              \X Optional(SmallAmounts \cup {Float(2000)})
              \X Optional(SmallAmounts \cup {Float(12000), Float(12002),
                                             Float(12003), Float(12500)})}

LineTotals == Optional({Float(n) : n \in {-3, 0, 3, 5}})

LineItemsInvoices ==
    {[ValidInvoice EXCEPT !.net_total = p[1], !.tax_amount = None,
                          !.line_items = p[2]] :
        p \in Optional({Float(n) : n \in {0, 3, 5, 6, 8}})
              \X SeqsUpTo({LineItem(Acme, None, None, t) : t \in LineTotals},
                          MaxItems)}

Names == Optional({Empty, Blank, Acme})

RequiredInvoices ==
    {[ValidInvoice EXCEPT !.invoice_number = p[1], !.invoice_date = p[2],
                          !.seller_name = p[3], !.buyer_name = p[4],
                          !.currency = p[5], !.gross_total = p[6],
                          !.net_total = None, !.due_date = None] :
        p \in Names \X Optional({Empty, Blank, Jan1}) \X Names \X Names
              \X Optional({Empty, Blank, EUR})
              \X Optional({Float(0), Float(12000)})}

Dates ==
    {Empty, Blank, Jan1,
     Text(<<"1", "9", "0", "0", "-", "0", "1", "-", "0", "1">>),
     Text(<<"1", "8", "9", "9", "-", "1", "2", "-", "3", "1">>),
     Text(<<"2", "1", "0", "0", "-", "1", "2", "-", "3", "1">>),
     Text(<<"2", "1", "0", "1", "-", "0", "1", "-", "0", "1">>),
     Text(<<"2", "0", "2", "4", "-", "0", "2", "-", "2", "9">>),
     Text(<<"2", "0", "2", "3", "-", "0", "2", "-", "2", "9">>),
     Text(<<"2", "0", "2", "4", "-", "1", "3", "-", "0", "1">>),
     Text(<<"3", "1", "/", "1", "2", "/", "2", "4">>),
     Text(<<"3", "1", ".", "1", "2", ".", "2", "0", "2", "4">>)}

DateInvoices ==
    {[ValidInvoice EXCEPT !.invoice_date = p[1], !.due_date = p[2]] :
        p \in Optional(Dates) \X Optional(Dates)}

\* records that break several rules at once
XXX == Text(<<"X", "X", "X">>)
BadDate == Text(<<"3", "1", "/", "1", "2", "/", "2", "4">>)

MixedInvoices ==
    {[ValidInvoice EXCEPT !.invoice_number = None, !.source_file = None,
                          !.invoice_date = BadDate, !.currency = XXX,
                          !.net_total = Float(-10000),
                          !.tax_amount = Float(2000),
                          !.gross_total = Float(12000),
                          !.line_items =
                              <<LineItem(Acme, None, None, Float(15000))>>],
     [ValidInvoice EXCEPT !.buyer_name = Blank, !.currency = XXX,
                          !.invoice_date = Feb1, !.due_date = Jan1,
                          !.gross_total = Float(-5),
                          !.line_items =
                              <<LineItem(Acme, None, None, Float(15000))>>],
     [ValidInvoice EXCEPT !.buyer_name = Blank, !.currency = XXX,
                          !.invoice_date = Feb1, !.due_date = Jan1,
                          !.gross_total = Float(-5), !.source_file = BPdf],
     [ValidInvoice EXCEPT !.invoice_number = Blank, !.source_file = Empty],
     [ValidInvoice EXCEPT !.invoice_number = Empty, !.source_file = None]}

\* the most invoices in a batch of such records
MaxMixed == 2

\* what the field extractors find in a readable document
Contents ==
    {Unreadable, ValidInvoice,
     [Invoice EXCEPT !.invoice_date = Jan1, !.seller_name = Acme]}

Files ==
    {[name |-> n, content |-> c] : n \in {APdf, BPdf, CTxt, DPdf}, c \in Contents}

\* the listings of a directory: the names of its files differ
Directories ==
    {d \in SeqsUpTo(Files, MaxFiles) :
        \A i, j \in 1..Len(d) : d[i].name = d[j].name => i = j}

\* the bounds of the arguments: the characters of an amount, the pieces of
\* a text, the columns, tables and rows
MaxChars == 4
MaxPieces == 3
MaxCols == 2
MaxTables == 2
MaxRows == 2

\* the arguments each method of the extractor is called with.
\*  - _parse_amount: the strings of a few characters;
\*  - _extract_currency: pieces side by side, and each code of the
\*    whitelist on its own;
\*  - _normalize_date: three numbers with a separator between them, and a
\*    day, the name of a month and a year;
\*  - _extract_line_items: one table of any header, several tables, one
\*    table of any rows, a table with two columns for the description, and
\*    a table with a row of numbers.
Arguments ==
    [_parse_amount |->
        SeqsUpTo({"0", "1", "5", ",", ".", "-", " ", "x"}, MaxChars)
            \cup {<<"1", ",", "2", "3", "4", ".", "5", "0">>,
                  <<"+", "3", ".", "1", "0">>, <<"1", ".", "2", ".", "3">>},
     _extract_currency |->
        LET pieces ==
                {<<"U", "S", "D">>, <<"E", "U", "R">>, <<"C", "H", "F">>,
                 <<"S", "E", "K">>, <<"$">>, <<"euro">>, <<"yen">>, <<" ">>, <<"x">>}
            RECURSIVE Flat(_)
            Flat(seq) == IF seq = <<>> THEN <<>> ELSE seq[1] \o Flat(Tail(seq))
        IN  {Flat(seq) : seq \in SeqsUpTo(pieces, MaxPieces)}
                \cup VALID_CURRENCIES
                \cup {<<"u", "s", "d">>, <<"pound", "1">>, <<"_", "U", "S", "D">>,
                      <<"1", "E", "U", "R">>, <<"G", "B", "P", "-", "$">>},
     _normalize_date |->
        LET numbers ==
                {<<"1">>, <<"0", "2">>, <<"1", "2">>, <<"1", "3">>, <<"3", "0">>,
                 <<"3", "1">>, <<"0", "0">>, <<" ", "5">>,
                 <<"2", "0", "2", "4">>, <<"0", "9", "9", "9">>}
            names ==
                {<<"F", "e", "b">>, <<"F", "e", "b", "r", "u", "a", "r", "y">>,
                 <<"f", "e", "b">>, <<"M", "A", "R", "C", "H">>,
                 <<"S", "e", "p", "t">>, <<"m", "a", "y">>}
            years ==
                {<<"2", "0", "2", "4">>, <<"2", "0", "2", "3">>,
                 <<"0", "9", "9", "9">>, <<"2", "4">>}
        IN  {a \o <<s>> \o b \o <<s>> \o c :
                a \in numbers, b \in numbers, c \in numbers,
                s \in {"/", "-", "."}}
            \cup {a \o <<"/">> \o b \o <<"-">> \o c :
                    a \in {<<"1">>, <<"3", "1">>}, b \in {<<"0", "2">>},
                    c \in {<<"2", "0", "2", "4">>}}
            \cup {pre \o d \o s \o m \o s \o y \o post :
                    pre \in {<<>>, <<" ">>}, post \in {<<>>, <<"\n">>},
                    d \in {<<"5">>, <<"2", "9">>, <<"3", "0">>},
                    s \in {<<" ">>, <<" ", " ">>, <<"-">>},
                    m \in names, y \in years}
            \cup {<<>>, <<" ">>, <<"x">>},
     _extract_line_items |->
        LET Description ==
                Text(<<"D", "e", "s", "c", "r", "i", "p", "t", "i", "o", "n">>)
            Item == Text(<<"I", "t", "e", "m">>)
            Qty == Text(<<"Q", "t", "y">>)
            Amount == Text(<<"A", "m", "o", "u", "n", "t">>)
            Total == Text(<<"T", "o", "t", "a", "l">>)
            UnitPrice ==
                Text(<<"U", "n", "i", "t", " ", "P", "r", "i", "c", "e">>)
            Rate == Text(<<"R", "a", "t", "e">>)
            Widget == Text(<<"W", "i", "d", "g", "e", "t">>)
            Gadget == Text(<<"G", "a", "d", "g", "e", "t">>)
            Bolt == Text(<<"B", "o", "l", "t">>)
            Two == Text(<<"2">>)
            X == Text(<<"x">>)
            headers ==
                SeqsUpTo({None, Description, Item, Qty, Amount, Total, UnitPrice,
                          Rate}, MaxCols)
            few ==
                {<<<<Description, Qty>>, <<Widget, Two>>, <<Gadget, X>>>>,
                 <<<<Item, Rate>>, <<Bolt, Two>>>>,
                 <<<<Description, Amount>>, <<Widget, Two>>>>,
                 <<<<Description, Total>>, <<Gadget, Two>>>>,
                 <<<<Description, Qty>>>>,
                 <<<<Qty, UnitPrice>>, <<Two, Two>>>>}
            cells == {None, Empty, Blank, Widget, Two}
        IN  \* one table, of any header
            {<<<<h, <<Widget, Two>>>>>> : h \in headers}
            \* several tables
            \cup SeqsUpTo(few, MaxTables)
            \* one table, of any rows
            \cup {<<<<<<Description, Qty>>>> \o rows>> :
                     rows \in SeqsUpTo(cells \X cells, MaxRows)}
            \* two columns for the description
            \cup {<<<<<<Item, Description, Qty>>, <<a, b, c>>>>>> :
                     a \in {None, Empty, Blank, Widget, Gadget},
                     b \in {None, Empty, Blank, Widget, Gadget},
                     c \in {Two, X}}
            \* a row of numbers
            \cup {<<<<<<Description, Qty, UnitPrice, Total>>, <<a, b, c, d>>>>>> :
                     a \in {None, Widget},
                     b \in {None, Two, X, Text(<<"1", ",", "0", "0", "0">>)},
                     c \in {None, Empty, Blank, Text(<<"1", ",", "5">>),
                            Text(<<"N", "/", "A">>)},
                     d \in {None, Text(<<"5">>), Text(<<"o", "o", "p", "s">>)}}]

(***************************************************************************)
(* The run                                                                 *)
(***************************************************************************)
VARIABLES
    directory,   \* the files of pdf_dir (empty when a batch is given)
    pdf_files,   \* extract_from_directory: the files that are extracted
    invoices,    \* the batch: extracted so far, then validated
    results,     \* validate_invoices: the results so far
    report,      \* the ValidationReport returned, or None
    pc,          \* "extract", "validate", "done" or "raised"; "call" and
                 \* "returned" for a call of one extractor method; "use" while
                 \* validators are constructed and their rule lists changed
                 \* "save", "except", "finally" and "responded" as well
                 \* for a request of the upload endpoint
    call,        \* the extractor method called and its argument, or None
    returned,    \* what the call returned, or None
    rule_lists,  \* the list objects that hold rules; the first is ALL_RULES
    validators   \* the InvoiceValidator objects constructed so far

vars ==
    <<directory, pdf_files, invoices, results, report, pc, call, returned,
      rule_lists, validators>>

\* cli.py validate / server.py validate_json: a batch of records is given
InitBatch ==
    /\ directory = <<>>
    /\ pdf_files = <<>>
    /\ \/ invoices \in SeqsUpTo(IdentityInvoices, MaxBatch)
       \/ invoices \in SeqsUpTo(AmountInvoices, MaxBatch)
       \/ \E inv \in TotalsInvoices : invoices = <<inv>>
       \/ \E inv \in LineItemsInvoices : invoices = <<inv>>
       \/ \E inv \in RequiredInvoices : invoices = <<inv>>
       \/ \E inv \in DateInvoices : invoices = <<inv>>
       \/ invoices \in SeqsUpTo(MixedInvoices, MaxMixed)
    /\ pc = "validate"

\* cli.py full_run: the invoices are extracted from the files of a directory
InitDirectory ==
    /\ directory \in Directories
    /\ directory # <<>>
    /\ pdf_files = Glob(directory)
    /\ invoices = <<>>
    /\ pc = IF Glob(directory) = <<>> THEN "validate" ELSE "extract"

Init ==
    /\ InitBatch \/ InitDirectory
    /\ results = <<>>
    /\ report = None
    \* a run of the pipeline calls no extractor method on its own and
    \* constructs one validator, whose rule list it leaves alone
    /\ call = None
    /\ returned = None
    /\ rule_lists = <<ALL_RULES>>
    /\ validators = <<>>

\* one turn of the loop of extract_from_directory
ExtractFromPdf ==
    /\ pc = "extract"
    /\ LET pdf_file == pdf_files[Len(invoices) + 1]
       IN  invoices' = Append(invoices, extract_from_pdf(pdf_file))
    /\ pc' = IF Len(invoices) + 1 = Len(pdf_files) THEN "validate" ELSE "extract"
    /\ UNCHANGED <<directory, pdf_files, results, report>>
    /\ UNCHANGED <<call, returned, rule_lists, validators>>

\* one turn of the loop of validate_invoices
ValidateInvoice ==
    /\ pc = "validate"
    /\ Len(results) < Len(invoices)
    /\ LET invoice == invoices[Len(results) + 1]
       IN  IF validate_invoice_raises(ALL_RULES, invoice, invoices)
           THEN /\ pc' = "raised"
                /\ UNCHANGED results
           ELSE /\ results' = Append(results,
                                 validate_invoice(ALL_RULES, invoice, invoices))
                /\ UNCHANGED pc
    /\ UNCHANGED <<directory, pdf_files, invoices, report>>
    /\ UNCHANGED <<call, returned, rule_lists, validators>>

\* the end of validate_invoices: the summary and the report
GenerateSummary ==
    /\ pc = "validate"
    /\ Len(results) = Len(invoices)
    /\ report' = [summary |-> _generate_summary(results), results |-> results]
    /\ pc' = "done"
    /\ UNCHANGED <<directory, pdf_files, invoices, results>>
    /\ UNCHANGED <<call, returned, rule_lists, validators>>

Next == ExtractFromPdf \/ ValidateInvoice \/ GenerateSummary

Spec == Init /\ [][Next]_vars

(***************************************************************************)
(* One call of a method of the extractor                                   *)
(***************************************************************************)
InitExtractor ==
    /\ directory = <<>>
    /\ pdf_files = <<>>
    /\ invoices = <<>>
    /\ results = <<>>
    /\ report = None
    /\ pc = "call"
    /\ \E method \in DOMAIN Arguments :
           \E arg \in Arguments[method] :
               call = [method |-> method, arg |-> arg]
    /\ returned = None
    /\ rule_lists = <<ALL_RULES>>
    /\ validators = <<>>

ExtractLineItems ==
    /\ pc = "call"
    /\ call.method = "_extract_line_items"
    /\ returned' = _extract_line_items(call.arg)
    /\ pc' = "returned"
    /\ UNCHANGED <<directory, pdf_files, invoices, results, report, call,
                   rule_lists, validators>>

ExtractCurrency ==
    /\ pc = "call"
    /\ call.method = "_extract_currency"
    /\ returned' = _extract_currency(call.arg)
    /\ pc' = "returned"
    /\ UNCHANGED <<directory, pdf_files, invoices, results, report, call,
                   rule_lists, validators>>

\* the C library decides how a year before 1000 is written
NormalizeDate ==
    /\ pc = "call"
    /\ call.method = "_normalize_date"
    /\ \E padded \in BOOLEAN : returned' = _normalize_date(call.arg, padded)
    /\ pc' = "returned"
    /\ UNCHANGED <<directory, pdf_files, invoices, results, report, call,
                   rule_lists, validators>>

ParseAmount ==
    /\ pc = "call"
    /\ call.method = "_parse_amount"
    /\ returned' = _parse_amount(call.arg)
    /\ pc' = "returned"
    /\ UNCHANGED <<directory, pdf_files, invoices, results, report, call,
                   rule_lists, validators>>

NextExtractor ==
    ExtractLineItems \/ ExtractCurrency \/ NormalizeDate \/ ParseAmount

SpecExtractor == InitExtractor /\ [][NextExtractor]_vars

(***************************************************************************)
(* Validators and their rule lists.  A list object is an entry of          *)
(* rule_lists and a validator holds the index of its list: self.rules is   *)
(* a reference, and two validators may hold the same one.  The entry 1 is  *)
(* the list of the module rules.py, ALL_RULES.                             *)
(***************************************************************************)
MaxValidators == 2
MaxRules == 9

\* InvoiceValidator(rules): self.rules = rules or ALL_RULES.  given is the
\* list the caller built for it, [list |-> rules], or None; an empty list
\* is false and gives way to ALL_RULES as None does.  The field changed is
\* history: it tells that rules were added or removed through this
\* validator.
InvoiceValidator(given, lists) ==
    [rules |-> IF given = None \/ given.list = <<>> THEN 1
               ELSE Len(lists) + 1,
     given |-> given,
     changed |-> FALSE]

InitValidators ==
    /\ directory = <<>>
    /\ pdf_files = <<>>
    /\ invoices = <<>>
    /\ results = <<>>
    /\ report = None
    /\ pc = "use"
    /\ call = None
    /\ returned = None
    /\ rule_lists = <<ALL_RULES>>
    /\ validators = <<>>

\* validator = InvoiceValidator() or InvoiceValidator(rules)
Construct ==
    /\ pc = "use"
    /\ Len(validators) < MaxValidators
    /\ \E given \in {None, [list |-> <<>>],
                      [list |-> <<Rule("required_fields", "error")>>]} :
           /\ validators' = Append(validators,
                                   InvoiceValidator(given, rule_lists))
           /\ rule_lists' = IF given = None \/ given.list = <<>>
                            THEN rule_lists
                            ELSE Append(rule_lists, given.list)
    /\ UNCHANGED <<directory, pdf_files, invoices, results, report, pc, call,
                   returned>>

\* validator.rules.append(rule)
AddRule ==
    /\ pc = "use"
    /\ \E v \in 1..Len(validators) :
           /\ Len(rule_lists[validators[v].rules]) < MaxRules
           /\ rule_lists' =
                  [rule_lists EXCEPT ![validators[v].rules] =
                      Append(@, Rule("no_negative_amounts", "error"))]
           /\ validators' = [validators EXCEPT ![v].changed = TRUE]
    /\ UNCHANGED <<directory, pdf_files, invoices, results, report, pc, call,
                   returned>>

\* validator.rules.pop()
RemoveRule ==
    /\ pc = "use"
    /\ \E v \in 1..Len(validators) :
           /\ rule_lists[validators[v].rules] # <<>>
           /\ rule_lists' =
                  [rule_lists EXCEPT ![validators[v].rules] =
                      SubSeq(@, 1, Len(@) - 1)]
           /\ validators' = [validators EXCEPT ![v].changed = TRUE]
    /\ UNCHANGED <<directory, pdf_files, invoices, results, report, pc, call,
                   returned>>

\* validator.validate_invoice(invoice, [invoice]), the last step of a use
ValidateWith ==
    /\ pc = "use"
    /\ \E v \in 1..Len(validators) :
       \E invoice \in {ValidInvoice, Invoice} :
           /\ call' = [method |-> "validate_invoice", validator |-> v,
                       arg |-> invoice]
           /\ returned' = validate_invoice(rule_lists[validators[v].rules],
                                           invoice, <<invoice>>)
    /\ pc' = "returned"
    /\ UNCHANGED <<directory, pdf_files, invoices, results, report,
                   rule_lists, validators>>

NextValidators == Construct \/ AddRule \/ RemoveRule \/ ValidateWith

SpecValidators == InitValidators /\ [][NextValidators]_vars

(***************************************************************************)
(* server.py: the upload endpoint, extract_and_validate_pdfs.  call holds  *)
(* the request, the files uploaded with their names and contents;          *)
(* directory is the temporary directory, whether it exists and the files   *)
(* written to it; pdf_files is pdf_paths, the names under which files were *)
(* written; returned is what leaves the try statement, an exception that   *)
(* was raised or the response that was returned, and the framework         *)
(* answers the request with its status_code.                               *)
(***************************************************************************)
\* the request is received, mkdtemp() has made the directory and the try
\* statement is entered; files: List[UploadFile] = File(...) is required,
\* there is one file at least.  The names of two uploads may be the same,
\* and a name may have a directory in it.
InitUpload ==
    /\ LET InDirectory == Text(<<"d", "/", "a", ".", "p", "d", "f">>)
       IN  \E files \in SeqsUpTo([name : {APdf, BPdf, CTxt, InDirectory},
                                  content : Contents], MaxFiles) :
               /\ files # <<>>
               /\ call = [method |-> "extract_and_validate_pdfs",
                          files |-> files]
    /\ directory = [exists |-> TRUE, files |-> <<>>]
    /\ pdf_files = <<>>
    /\ invoices = <<>>
    /\ results = <<>>
    /\ report = None
    /\ pc = "save"
    /\ returned = None
    /\ rule_lists = <<ALL_RULES>>
    /\ validators = <<>>

\* one turn of the loop that saves the uploaded files.  open() raises when
\* the name has a directory in it, which the new temporary directory does
\* not have; writing under a name that is there already replaces the
\* content of that file.
SaveUploadedFile ==
    /\ pc = "save"
    /\ LET file == call.files[Len(pdf_files) + 1]
           written == SelectSeq(directory.files,
                                LAMBDA f : f.name # file.name)
       IN  IF ~EndsWithPdf(file.name)
           THEN /\ returned' = [exception |-> "HTTPException",
                                status_code |-> 400, detail |-> file.name]
                /\ pc' = "except"
                /\ UNCHANGED <<directory, pdf_files>>
           ELSE IF In(<<"/">>, file.name.str)
           THEN /\ returned' = [exception |-> "FileNotFoundError",
                                detail |-> file.name]
                /\ pc' = "except"
                /\ UNCHANGED <<directory, pdf_files>>
           ELSE /\ directory' =
                       [directory EXCEPT !.files = Append(written, file)]
                /\ pdf_files' = Append(pdf_files, file.name)
                /\ pc' = IF Len(pdf_files) + 1 = Len(call.files)
                         THEN "extract" ELSE "save"
                /\ UNCHANGED returned
    /\ UNCHANGED <<invoices, results, report, call, rule_lists, validators>>

\* one turn of the loop that extracts the saved files: the file that is
\* read is the one the temporary directory has under the name
ExtractUploaded ==
    /\ pc = "extract"
    /\ LET pdf_path == pdf_files[Len(invoices) + 1]
           k == CHOOSE i \in 1..Len(directory.files) :
                    directory.files[i].name = pdf_path
       IN  invoices' = Append(invoices, extract_from_pdf(directory.files[k]))
    /\ pc' = IF Len(invoices) + 1 = Len(pdf_files) THEN "validate"
             ELSE "extract"
    /\ UNCHANGED <<directory, pdf_files, results, report, call, returned,
                   rule_lists, validators>>

\* InvoiceValidator().validate_invoices(invoices) and the return of the
\* response
ValidateUploaded ==
    /\ pc = "validate"
    /\ LET RECURSIVE Results(_)
           Results(n) ==
               IF n = 0 THEN <<>>
               ELSE Append(Results(n - 1),
                           validate_invoice(ALL_RULES, invoices[n], invoices))
           all == Results(Len(invoices))
           validation_report ==
               [summary |-> _generate_summary(all), results |-> all]
       IN  IF \E n \in 1..Len(invoices) :
                  validate_invoice_raises(ALL_RULES, invoices[n], invoices)
           THEN /\ returned' = [exception |-> "TypeError", detail |-> None]
                /\ pc' = "except"
                /\ UNCHANGED <<results, report>>
           ELSE /\ results' = all
                /\ report' = validation_report
                /\ returned' = [status_code |-> 200,
                                extracted_invoices |-> invoices,
                                validation_report |-> validation_report]
                /\ pc' = "finally"
    /\ UNCHANGED <<directory, pdf_files, invoices, call, rule_lists,
                   validators>>

\* except Exception as e: whatever was raised in the try statement is an
\* Exception, the HTTPException of a file that is not a PDF as well, and
\* HTTPException(status_code=500) is raised in its place, with str(e) in
\* its detail
Except ==
    /\ pc = "except"
    /\ returned' = [exception |-> "HTTPException", status_code |-> 500,
                    detail |-> returned]
    /\ pc' = "finally"
    /\ UNCHANGED <<directory, pdf_files, invoices, results, report, call,
                   rule_lists, validators>>

\* finally: shutil.rmtree(temp_dir, ignore_errors=True), and the response
\* or the exception leaves the handler
Finally ==
    /\ pc = "finally"
    /\ directory' = [exists |-> FALSE, files |-> <<>>]
    /\ pc' = "responded"
    /\ UNCHANGED <<pdf_files, invoices, results, report, call, returned,
                   rule_lists, validators>>

NextUpload ==
    SaveUploadedFile \/ ExtractUploaded \/ ValidateUploaded \/ Except
        \/ Finally

SpecUpload == InitUpload /\ [][NextUpload]_vars

(***************************************************************************)
(* Properties.  The amounts of the expected outcomes are exact: integers   *)
(* of cents.                                                               *)
(***************************************************************************)
\* the findings of one rule, on one field
OfRule(findings, rule) == SelectSeq(findings, LAMBDA e : e.rule = rule)
OnField(findings, field) == SelectSeq(findings, LAMBDA e : e.field = field)

\* the text s occurs in the message
Contains(message, s) ==
    \E k \in 0..(Len(message) - Len(s)) : SubSeq(message, k + 1, k + Len(s)) = s

RECURSIVE SumCounts(_)
SumCounts(counts) ==
    IF DOMAIN counts = {} THEN 0
    ELSE LET key == CHOOSE k \in DOMAIN counts : TRUE
         IN  counts[key]
             + SumCounts([k \in DOMAIN counts \ {key} |-> counts[k]])

\* C1: every result of validate_invoice has is_valid true exactly when its
\* errors sequence is empty, whatever the number of its warnings.
C1_ValidIffNoErrors ==
    \A i \in 1..Len(results) : results[i].is_valid <=> results[i].errors = <<>>

\* a result without errors and with a warning, and valid
C1_ValidWithWarning ==
    \E i \in 1..Len(results) :
        /\ results[i].errors = <<>>
        /\ results[i].warnings # <<>>
        /\ results[i].is_valid

\* the documents submitted to the pipeline: the PDF files of the directory,
\* in the order of the listing
SubmittedDocuments ==
    SelectSeq(directory, LAMBDA f : f.name \in {APdf, BPdf, DPdf})

\* what identifies a document in the report: the invoice number found in
\* it, and the name of its file when none was found or it failed extraction
DocumentId(f) ==
    IF f.content # Unreadable /\ f.content.invoice_number \notin {None, Empty}
    THEN f.content.invoice_number
    ELSE f.name

\* C2: extraction followed by validate_invoices returns a report, and its
\* results have exactly one entry per submitted document, the i-th entry
\* being that of the i-th document, also for the documents that fail
\* extraction.
C2_OneResultPerDocument ==
    directory # <<>> =>
        /\ pc # "raised"
        /\ Len(results) <= Len(SubmittedDocuments)
        /\ \A i \in 1..Len(results) :
               results[i].invoice_id = DocumentId(SubmittedDocuments[i])
        /\ pc = "done" =>
               /\ report.results = results
               /\ Len(report.results) = Len(SubmittedDocuments)

\* a report on several documents, one that failed extraction after one that
\* did not
C2_ReportWithFailedDocument ==
    /\ pc = "done"
    /\ Len(report.results) >= 2
    /\ \E i, j \in 1..Len(SubmittedDocuments) :
           /\ i < j
           /\ SubmittedDocuments[i].content # Unreadable
           /\ SubmittedDocuments[j].content = Unreadable

\* three invoices, exactly one without invoice_number, the others valid
ThreeWithOneUnnumbered ==
    /\ Len(invoices) = 3
    /\ Len(results) = 3
    /\ Cardinality({i \in 1..3 : invoices[i].invoice_number = None}) = 1
    /\ \A i \in 1..3 :
           invoices[i].invoice_number # None =>
               results[i].errors = <<>> /\ results[i].warnings = <<>>

\* C3: in the summary total_invoices is the length of the batch,
\* valid_invoices the number of results with is_valid true, invalid_invoices
\* their difference; three invoices of which exactly one misses its
\* invoice_number, the others being valid, give 3, 2, 1 and a key of the
\* required_fields rule with count 1.
C3_SummaryCounts ==
    pc = "done" =>
        LET summary == report.summary
        IN  /\ summary.total_invoices = Len(invoices)
            /\ summary.valid_invoices =
                   Cardinality({i \in 1..Len(report.results) :
                                   report.results[i].is_valid})
            /\ summary.invalid_invoices =
                   summary.total_invoices - summary.valid_invoices
            /\ ThreeWithOneUnnumbered =>
                   /\ summary.total_invoices = 3
                   /\ summary.valid_invoices = 2
                   /\ summary.invalid_invoices = 1
                   /\ \E key \in DOMAIN summary.error_counts :
                          /\ key[1] = "required_fields"
                          /\ summary.error_counts[key] = 1

\* the summary of three invoices, exactly one without invoice_number
C3_ThreeInvoicesSummarised ==
    /\ pc = "done"
    /\ ThreeWithOneUnnumbered
    /\ report.summary.valid_invoices = 2

\* C4: each finding is counted under the key of its rule; the totals_match
\* errors of a batch, which differ only in their amounts, share one bucket,
\* and so do its line_items_total warnings; the counts of the buckets add up
\* to the number of errors, and of warnings, of the batch.
C4_OneBucketPerRule ==
    pc = "done" =>
        LET summary  == report.summary
            errors   == AllFindings(report.results, "errors")
            warnings == AllFindings(report.results, "warnings")
        IN  /\ \A k \in 1..Len(errors) :
                   \E key \in DOMAIN summary.error_counts :
                       key[1] = errors[k].rule
            /\ \A k \in 1..Len(warnings) :
                   \E key \in DOMAIN summary.warning_counts :
                       key[1] = warnings[k].rule
            /\ Cardinality({key \in DOMAIN summary.error_counts :
                                key[1] = "totals_match"}) <= 1
            /\ Cardinality({key \in DOMAIN summary.warning_counts :
                                key[1] = "line_items_total"}) <= 1
            /\ SumCounts(summary.error_counts) = Len(errors)
            /\ SumCounts(summary.warning_counts) = Len(warnings)

\* the other invoices of the batch with the same invoice_number, seller_name
\* and invoice_date as the i-th and a different source_file
DuplicatesOf(i) ==
    {j \in 1..Len(invoices) :
        /\ invoices[j].invoice_number = invoices[i].invoice_number
        /\ invoices[j].seller_name = invoices[i].seller_name
        /\ invoices[j].invoice_date = invoices[i].invoice_date
        /\ invoices[j].source_file # invoices[i].source_file}

\* C5: for every invoice of the batch with a present invoice_number the
\* no_duplicates rule emits exactly one error, naming the source file of
\* every duplicate, when the batch holds a duplicate of it, and none
\* otherwise.
C5_DuplicateDetection ==
    /\ \A i \in 1..Len(results) :
           invoices[i].invoice_number # None =>
               LET errs == OfRule(results[i].errors, "no_duplicates")
               IN  IF DuplicatesOf(i) = {} THEN errs = <<>>
                   ELSE /\ Len(errs) = 1
                        /\ \A j \in DuplicatesOf(i) :
                               /\ invoices[j].source_file # None
                               /\ Contains(errs[1].message,
                                           invoices[j].source_file.str)
    /\ pc = "raised" => invoices[Len(results) + 1].invoice_number = None

\* C6: validate_invoices completes for every batch: no rule raises.
C6_NeverRaises == pc # "raised"

\* C7: when net_total, tax_amount and gross_total are present, totals_match
\* emits exactly one error, on gross_total, if |net_total + tax_amount -
\* gross_total| > 0.02, and none if it is <= 0.02; when one of the three is
\* absent it emits none.
C7_TotalsMatch ==
    \A i \in 1..Len(results) :
        LET invoice == invoices[i]
            errs    == OfRule(results[i].errors, "totals_match")
        IN  IF /\ invoice.net_total # None
               /\ invoice.tax_amount # None
               /\ invoice.gross_total # None
               /\ Abs(invoice.net_total.cents + invoice.tax_amount.cents
                          - invoice.gross_total.cents) > 2
            THEN Len(errs) = 1 /\ errs[1].field = "gross_total"
            ELSE errs = <<>>

\* the sum, in cents, of the present line_total values
RECURSIVE LineTotalCents(_)
LineTotalCents(items) ==
    IF items = <<>> THEN 0
    ELSE (IF Head(items).line_total # None
          THEN Head(items).line_total.cents ELSE 0)
         + LineTotalCents(Tail(items))

\* C8: line_items_total emits exactly one finding when net_total is present,
\* a line item has a line_total, the sum of the present line_total values
\* is strictly positive and differs from net_total by more than 0.02; it
\* emits none in every other case.
C8_LineItemsTotal ==
    \A i \in 1..Len(results) :
        LET invoice  == invoices[i]
            findings == OfRule(results[i].errors \o results[i].warnings,
                               "line_items_total")
        IN  IF /\ invoice.net_total # None
               /\ \E k \in 1..Len(invoice.line_items) :
                      invoice.line_items[k].line_total # None
               /\ LineTotalCents(invoice.line_items) > 0
               /\ Abs(LineTotalCents(invoice.line_items)
                          - invoice.net_total.cents) > 2
            THEN Len(findings) = 1
            ELSE findings = <<>>

\* absent, or a text with nothing but white space
IsMissing(value) ==
    \/ value = None
    \/ /\ "str" \in DOMAIN value
       /\ \A k \in 1..Len(value.str) : value.str[k] \in {" ", "\t", "\n"}

RequiredNames ==
    {"invoice_number", "invoice_date", "seller_name", "buyer_name", "currency",
     "gross_total"}

\* C9: required_fields emits exactly one error for each of invoice_number,
\* invoice_date, seller_name, buyer_name, currency, gross_total that is
\* absent or a blank text, and no other error: as many errors as missing
\* required fields.  A gross_total of 0 is present.
C9_RequiredFields ==
    \A i \in 1..Len(results) :
        LET errs    == OfRule(results[i].errors, "required_fields")
            missing == {f \in RequiredNames : IsMissing(invoices[i][f])}
        IN  /\ \A f \in RequiredNames :
                   Len(OnField(errs, f)) = IF f \in missing THEN 1 ELSE 0
            /\ Len(errs) = Cardinality(missing)

\* an invoice with a blank seller_name, an absent buyer_name and a
\* gross_total of 0: two errors
C9_BlankAbsentAndZero ==
    \E i \in 1..Len(results) :
        /\ invoices[i].seller_name = Blank
        /\ invoices[i].buyer_name = None
        /\ invoices[i].gross_total = Float(0)
        /\ Len(OfRule(results[i].errors, "required_fields")) = 2

\* the calendar dates with a year in 1900..2100 among the drawn values
DatesInRange ==
    {Jan1, Feb1,
     Text(<<"1", "9", "0", "0", "-", "0", "1", "-", "0", "1">>),
     Text(<<"2", "1", "0", "0", "-", "1", "2", "-", "3", "1">>),
     Text(<<"2", "0", "2", "4", "-", "0", "2", "-", "2", "9">>)}

\* C10: for invoice_date and for due_date, date_format emits exactly one
\* error when the field is present and is not a calendar date with a year
\* in 1900..2100, an empty or a blank text included, and none when it is
\* absent or such a date.
C10_DateFormat ==
    \A i \in 1..Len(results) :
        \A f \in {"invoice_date", "due_date"} :
            Len(OnField(OfRule(results[i].errors, "date_format"), f))
                = IF invoices[i][f] # None /\ invoices[i][f] \notin DatesInRange
                  THEN 1 ELSE 0

\* the drawn values that parse as dates, numbered in the order of time
DateOrder ==
    (Text(<<"1", "8", "9", "9", "-", "1", "2", "-", "3", "1">>) :> 1)
    @@ (Text(<<"1", "9", "0", "0", "-", "0", "1", "-", "0", "1">>) :> 2)
    @@ (Jan1 :> 3) @@ (Feb1 :> 4)
    @@ (Text(<<"2", "0", "2", "4", "-", "0", "2", "-", "2", "9">>) :> 5)
    @@ (Text(<<"2", "1", "0", "0", "-", "1", "2", "-", "3", "1">>) :> 6)
    @@ (Text(<<"2", "1", "0", "1", "-", "0", "1", "-", "0", "1">>) :> 7)

\* C11: due_date_logic emits exactly one error, on due_date, when
\* invoice_date and due_date are both present, both parse and due_date is
\* strictly earlier than invoice_date; it emits none when the dates are
\* equal or in order, or when one of them is absent or does not parse.
C11_DueDateLogic ==
    \A i \in 1..Len(results) :
        LET invoice == invoices[i]
            errs    == OfRule(results[i].errors, "due_date_logic")
        IN  IF /\ invoice.invoice_date \in DOMAIN DateOrder
               /\ invoice.due_date \in DOMAIN DateOrder
               /\ DateOrder[invoice.due_date] < DateOrder[invoice.invoice_date]
            THEN Len(errs) = 1 /\ errs[1].field = "due_date"
            ELSE errs = <<>>

\* a due date one day before the invoice date is reported, and an invoice
\* with equal dates has been validated
C11_DueBeforeInvoice ==
    \E i \in 1..Len(results) :
        /\ invoices[i].invoice_date =
               Text(<<"1", "9", "0", "0", "-", "0", "1", "-", "0", "1">>)
        /\ invoices[i].due_date =
               Text(<<"1", "8", "9", "9", "-", "1", "2", "-", "3", "1">>)
        /\ Len(OfRule(results[i].errors, "due_date_logic")) = 1

\* the place in the catalog of the rules whose findings are errors
ErrorRank ==
    ("required_fields" :> 1) @@ ("date_format" :> 2)
    @@ ("currency_validation" :> 3) @@ ("due_date_logic" :> 4)
    @@ ("totals_match" :> 5) @@ ("no_negative_amounts" :> 6)
    @@ ("no_duplicates" :> 7)

\* C12: in every result the warnings are findings of line_items_total
\* only, the errors are findings of the seven other rules only, and the
\* errors stand in the catalog order of their rules.
C12_RoutingAndOrder ==
    \A i \in 1..Len(results) :
        /\ \A k \in 1..Len(results[i].warnings) :
               results[i].warnings[k].rule = "line_items_total"
        /\ \A k \in 1..Len(results[i].errors) :
               results[i].errors[k].rule \in DOMAIN ErrorRank
        /\ \A k, l \in 1..Len(results[i].errors) :
               k < l => ErrorRank[results[i].errors[k].rule]
                            <= ErrorRank[results[i].errors[l].rule]

\* a result with a warning and with errors of at least five rules
C12_ManyRulesOneResult ==
    \E i \in 1..Len(results) :
        /\ results[i].warnings # <<>>
        /\ Cardinality({results[i].errors[k].rule :
                            k \in 1..Len(results[i].errors)}) >= 5

\* C13: a document whose processing fails gives a record whose only
\* present field is source_file, the name of its file, and nothing is
\* raised; the documents after it are extracted, and the record of a
\* document that does not fail holds what was found in it.
C13_FailureIsolation ==
    directory # <<>> =>
        /\ Len(invoices) <= Len(SubmittedDocuments)
        /\ pc \in {"validate", "done"} =>
               Len(invoices) = Len(SubmittedDocuments)
        /\ \A i \in 1..Len(invoices) :
               LET document == SubmittedDocuments[i]
               IN  /\ invoices[i].source_file = document.name
                   /\ IF document.content = Unreadable
                      THEN /\ invoices[i].line_items = <<>>
                           /\ \A f \in DOMAIN invoices[i]
                                         \ {"source_file", "line_items"} :
                                  invoices[i][f] = None
                      ELSE \A f \in DOMAIN invoices[i] \ {"source_file"} :
                               invoices[i][f] = document.content[f]

\* the extraction is over; a document that failed is followed by one that
\* did not
C13_ExtractedAfterFailure ==
    /\ directory # <<>>
    /\ pc = "validate"
    /\ Len(invoices) = Len(SubmittedDocuments)
    /\ \E i, j \in 1..Len(invoices) :
           /\ i < j
           /\ SubmittedDocuments[i].content = Unreadable
           /\ SubmittedDocuments[j].content # Unreadable
           /\ invoices[j].invoice_number = INV1

\* C14, as claimed: invoice_id is the invoice_number when that is present,
\* otherwise the source_file when that is present, otherwise "unknown"; it
\* is never empty.
C14_IdOfPresentField ==
    \A i \in 1..Len(results) :
        /\ results[i].invoice_id =
               IF invoices[i].invoice_number # None
               THEN invoices[i].invoice_number
               ELSE IF invoices[i].source_file # None
                    THEN invoices[i].source_file
                    ELSE Text(<<"u", "n", "k", "n", "o", "w", "n">>)
        /\ results[i].invoice_id # Empty

\* C14, amended: invoice_id is the invoice_number when that is present and
\* not the empty string, otherwise the source_file when that is present and
\* not the empty string, otherwise "unknown"; it is never empty.
C14_IdOfNonEmptyField ==
    \A i \in 1..Len(results) :
        /\ results[i].invoice_id =
               IF invoices[i].invoice_number \notin {None, Empty}
               THEN invoices[i].invoice_number
               ELSE IF invoices[i].source_file \notin {None, Empty}
                    THEN invoices[i].source_file
                    ELSE Text(<<"u", "n", "k", "n", "o", "w", "n">>)
        /\ results[i].invoice_id \notin {None, Empty}

\* an empty invoice_number and an absent source_file give "unknown", and
\* an empty invoice_number with a source_file gives the source_file
C14_EmptyNumberPassedOver ==
    /\ \E i \in 1..Len(results) :
           /\ invoices[i].invoice_number = Empty
           /\ invoices[i].source_file = None
           /\ results[i].invoice_id = Text(<<"u", "n", "k", "n", "o", "w", "n">>)
    /\ \E i \in 1..Len(results) :
           /\ invoices[i].invoice_number = Blank
           /\ results[i].invoice_id = Blank

\* the least number of a set
Least(S) == CHOOSE i \in S : \A j \in S : i <= j

\* the call of a method has returned
Returned(method) == pc = "returned" /\ call.method = method

\* a cell of the header row of the table contains one of the words
HeaderHas(table, words) ==
    \E i \in 1..Len(table[1]) :
        /\ table[1][i] \notin {None, Empty}
        /\ \E w \in words : In(w, Lower(table[1][i].str))

DescriptionWords == {Word.description, Word.item, Word.product}

\* the line items of the rows of a table that have a description
RetainedRows(table) ==
    SelectSeq([i \in 1..(Len(table) - 1) |->
                  _parse_line_item_row(table[i + 1], Header(table))],
              LAMBDA item : item.description \notin {None, Empty})

\* the retained rows of the tables that are accepted, in their order
RECURSIVE RowsOfTables(_, _)
RowsOfTables(tables, accepted) ==
    IF tables = <<>> THEN <<>>
    ELSE (IF accepted[1] THEN RetainedRows(tables[1]) ELSE <<>>)
             \o RowsOfTables(Tail(tables), Tail(accepted))

\* C15: the line items returned are the retained rows, in table order then
\* row order, of exactly the tables that have a header row and a data row
\* and whose header has a cell with a description/item/product word and a
\* cell with a quantity word (qty, quantity) or a price/rate/unit word; a
\* header with a description column and only an "amount" or a "total"
\* column beside it contributes nothing.
C15_TableSelection ==
    Returned("_extract_line_items") =>
        returned =
            RowsOfTables(call.arg,
                [i \in 1..Len(call.arg) |->
                    /\ Len(call.arg[i]) >= 2
                    /\ HeaderHas(call.arg[i], DescriptionWords)
                    /\ \/ HeaderHas(call.arg[i], {Word.qty, Word.quantity})
                       \/ HeaderHas(call.arg[i],
                                    {Word.price, Word.rate, Word.unit})])

\* the row has a cell with text other than white space under a column
\* whose header has a description/item/product word
HasDescription(row, table) ==
    \E i \in 1..Min(Len(row), Len(table[1])) :
        /\ HeaderHas(<<<<table[1][i]>>>>, DescriptionWords)
        /\ row[i] \notin {None, Empty}
        /\ \E k \in 1..Len(row[i].str) : row[i].str[k] \notin Whitespace

\* C16: of a table that is taken for a line items table, a data row yields
\* a line item if and only if its cell under a description column is not
\* empty, whatever its numeric cells hold; every line item returned has a
\* description that is not empty.
C16_RowInclusionGate ==
    Returned("_extract_line_items") /\ Len(call.arg) = 1 /\ Len(call.arg[1]) >= 2
        /\ has_description(Header(call.arg[1]))
        /\ (has_quantity(Header(call.arg[1])) \/ has_price(Header(call.arg[1])))
    =>  /\ Len(returned) =
               Cardinality({i \in 2..Len(call.arg[1]) :
                               HasDescription(call.arg[1][i], call.arg[1])})
        /\ \A k \in 1..Len(returned) :
               returned[k].description \notin {None, Empty}

\* a character that is part of a word: a letter, a digit or the underscore
IsWordChar(c) ==
    \/ IsDigit(c)
    \/ c = "_"
    \/ \E k \in 1..Len(Letters.upper) :
           c = Letters.upper[k] \/ c = Letters.lower[k]

\* the codes of the set that occur in the text as words
CodesIn(text, codes) ==
    {c \in codes :
        \E i \in 1..(Len(text) - Len(c) + 1) :
            /\ SubSeq(text, i, i + Len(c) - 1) = c
            /\ i = 1 \/ ~IsWordChar(text[i - 1])
            /\ i + Len(c) > Len(text) \/ ~IsWordChar(text[i + Len(c)])}

\* C17: when a code of the currency whitelist occurs in the text, the
\* currency returned is such a code that occurs in the text, whether or
\* not a symbol occurs too and whichever comes first; otherwise it is the
\* code of the first of the symbols euro, dollar, pound, yen in the text;
\* otherwise it is absent.
C17_CurrencyPrecedence ==
    Returned("_extract_currency") =>
        LET symbols ==
                {i \in 1..Len(call.arg) :
                    call.arg[i] \in {"euro", "$", "pound", "yen"}}
        IN  IF CodesIn(call.arg, VALID_CURRENCIES) # {}
            THEN /\ returned # None
                 /\ returned.str \in CodesIn(call.arg, VALID_CURRENCIES)
            ELSE IF symbols # {}
            THEN returned =
                     Text(CASE call.arg[Least(symbols)] = "euro" -> <<"E", "U", "R">>
                            [] call.arg[Least(symbols)] = "$" -> <<"U", "S", "D">>
                            [] call.arg[Least(symbols)] = "pound" -> <<"G", "B", "P">>
                            [] call.arg[Least(symbols)] = "yen" -> <<"J", "P", "Y">>)
            ELSE returned = None

\* a string of the form YYYY-MM-DD
IsIsoDate(s) ==
    /\ Len(s) = 10
    /\ \A i \in {1, 2, 3, 4, 6, 7, 9, 10} : IsDigit(s[i])
    /\ s[5] = "-" /\ s[8] = "-"

\* C18: _normalize_date returns the date of the first of its formats that
\* parses the string, written as YYYY-MM-DD, and the string itself when no
\* format parses it; so the result is a YYYY-MM-DD string or the input,
\* and a date with slashes that is valid both ways is read as day/month.
C18_DateNormalization ==
    Returned("_normalize_date") =>
        LET parsing ==
                {k \in 1..Len(date_formats) :
                    strptime(Strip(call.arg), date_formats[k]) # None}
            dt == strptime(Strip(call.arg), date_formats[Least(parsing)])
        IN  /\ IsIsoDate(returned) \/ returned = call.arg
            /\ parsing = {} => returned = call.arg
            /\ parsing # {} =>
                   /\ IsIsoDate(returned)
                   /\ DigitsValue(SubSeq(returned, 1, 4)) = dt.year
                   /\ DigitsValue(SubSeq(returned, 6, 7)) = dt.month
                   /\ DigitsValue(SubSeq(returned, 9, 10)) = dt.day
            /\ 1 \in parsing /\ 2 \in parsing =>
                   DigitsValue(SubSeq(returned, 6, 7))
                       = strptime(Strip(call.arg), date_formats[1]).month

\* what is left of a string when its commas and the white space around it
\* are taken away
WithoutCommas(s) == Strip(SelectSeq(s, LAMBDA c : c # ","))

\* the string is a decimal number: a sign or none, then digits with at most
\* one point among them
IsDecimal(t) ==
    LET body == IF t # <<>> /\ t[1] \in {"+", "-"} THEN Tail(t) ELSE t
    IN  /\ \E i \in 1..Len(body) : IsDigit(body[i])
        /\ \A i \in 1..Len(body) : IsDigit(body[i]) \/ body[i] = "."
        /\ Cardinality({i \in 1..Len(body) : body[i] = "."}) <= 1

RECURSIVE TenToThe(_)
TenToThe(k) == IF k = 0 THEN 1 ELSE 10 * TenToThe(k - 1)

\* the float v is the one the decimal number t is read as
IsValueOf(v, t) ==
    LET n == (IF t[1] = "-" THEN 0 - 1 ELSE 1)
                 * DigitsValue(SelectSeq(t, IsDigit))
        k == Cardinality({i \in 1..Len(t) :
                             IsDigit(t[i]) /\ \E j \in 1..i : t[j] = "."})
    IN  /\ v # None
        /\ IF "cents" \in DOMAIN v
           THEN v.cents * TenToThe(k) = n * 100
           ELSE v.decimal * TenToThe(k) = n * TenToThe(v.places)

\* _parse_amount takes every comma away and returns the decimal value of
\* what is left, and 0 when that is not a number
AmountParsed ==
    Returned("_parse_amount") =>
        IF IsDecimal(WithoutCommas(call.arg))
        THEN IsValueOf(returned, WithoutCommas(call.arg))
        ELSE returned = Float(0)

\* the call is of one table of the columns description, quantity, unit
\* price and total with one row, which is kept
RowOfNumbers ==
    /\ Returned("_extract_line_items")
    /\ Len(call.arg) = 1
    /\ Len(call.arg[1]) = 2
    /\ Len(call.arg[1][1]) = 4
    /\ Len(returned) = 1

\* C19, as claimed: _parse_amount takes every comma away and returns the
\* decimal value of what is left, and exactly 0 for every string that is
\* not a number then; in a row, a unit price or line total cell that is
\* not a number becomes 0 and a quantity cell that is not a number leaves
\* the quantity absent.
C19_AmountParsing ==
    /\ AmountParsed
    /\ RowOfNumbers =>
           LET row == call.arg[1][2]
           IN  /\ row[3] # None /\ ~IsDecimal(WithoutCommas(row[3].str))
                      => returned[1].unit_price = Float(0)
               /\ row[4] # None /\ ~IsDecimal(WithoutCommas(row[4].str))
                      => returned[1].line_total = Float(0)
               /\ row[2] # None /\ ~IsDecimal(WithoutCommas(row[2].str))
                      => returned[1].quantity = None

\* C19, amended: as claimed, for the cells of a row that are not empty; an
\* empty cell leaves its field absent.
C19_AmountParsingOfCells ==
    /\ AmountParsed
    /\ RowOfNumbers =>
           LET row == call.arg[1][2]
           IN  /\ row[3] \notin {None, Empty}
                      => IF IsDecimal(WithoutCommas(row[3].str))
                         THEN IsValueOf(returned[1].unit_price,
                                        WithoutCommas(row[3].str))
                         ELSE returned[1].unit_price = Float(0)
               /\ row[4] \notin {None, Empty}
                      => IF IsDecimal(WithoutCommas(row[4].str))
                         THEN IsValueOf(returned[1].line_total,
                                        WithoutCommas(row[4].str))
                         ELSE returned[1].line_total = Float(0)
               /\ row[2] \notin {None, Empty}
                      => IF IsDecimal(WithoutCommas(row[2].str))
                         THEN IsValueOf(returned[1].quantity,
                                        WithoutCommas(row[2].str))
                         ELSE returned[1].quantity = None
               /\ row[3] \in {None, Empty} => returned[1].unit_price = None
               /\ row[4] \in {None, Empty} => returned[1].line_total = None
               /\ row[2] \in {None, Empty} => returned[1].quantity = None

\* a row whose quantity and line total are not numbers and whose unit
\* price has a comma: the quantity is absent, the unit price 15, the
\* line total 0
C19_RowOfUnparsedNumbers ==
    /\ RowOfNumbers
    /\ call.arg[1][2][2] = Text(<<"x">>)
    /\ call.arg[1][2][3] = Text(<<"1", ",", "5">>)
    /\ call.arg[1][2][4] = Text(<<"o", "o", "p", "s">>)
    /\ returned[1].quantity = None
    /\ returned[1].unit_price = Float(1500)
    /\ returned[1].line_total = Float(0)

\* C20: a validator through which no rule was added or removed has the
\* rules it was constructed with, the standard catalog of eight rules when
\* nothing was passed, whatever was done through the other validators; and
\* what a validation call of such a validator returns is what these rules
\* give for its invoice.
C20_NoSharedRuleList ==
    /\ \A v \in 1..Len(validators) :
           ~validators[v].changed =>
               rule_lists[validators[v].rules] =
                   IF validators[v].given = None THEN ALL_RULES
                   ELSE validators[v].given.list
    /\ call # None /\ ~validators[call.validator].changed =>
           returned =
               validate_invoice(
                   IF validators[call.validator].given = None THEN ALL_RULES
                   ELSE validators[call.validator].given.list,
                   call.arg, <<call.arg>>)

\* the request of the upload endpoint has ended
Responded == pc = "responded"

\* the name of one uploaded file at least does not end in .pdf
NotAllPdf ==
    \E i \in 1..Len(call.files) : ~EndsWithPdf(call.files[i].name)

\* C21: when the request of extract_and_validate_pdfs has ended, its status
\* is 400 if the name of an uploaded file does not end in .pdf, and then no
\* file was extracted and nothing validated; it is 500 if processing failed
\* for another reason and 200 if it did not fail; and the temporary
\* directory made for the request is removed in each of these outcomes.
C21_UploadOutcomes ==
    Responded =>
        /\ NotAllPdf =>
               /\ returned.status_code = 400
               /\ invoices = <<>> /\ results = <<>> /\ report = None
        /\ ~NotAllPdf /\ report = None => returned.status_code = 500
        /\ ~NotAllPdf /\ report # None => returned.status_code = 200
        /\ ~directory.exists

====
